---- MODULE Spec2Model ----
(***************************************************************************)
(* A model of the analytics dashboard: the upload view and its file        *)
(* reads (UploadTab, App), the two sheet normalizers (processExcelFile,    *)
(* loadSampleData), the column classifier (processDashboardData) and the   *)
(* data table's search / sort / paginate pipeline and sort handler         *)
(* (DataTableTab).                                                         *)
(*                                                                         *)
(* JavaScript values are records [t, s, n]: t is the type tag, s the       *)
(* characters of a string (a sequence of one-character strings), n the     *)
(* integer value of a number or boolean.  The strings of the model have    *)
(* no ".", no exponent and no "Infinity", so that every number is an       *)
(* integer and a decimal literal is a sign and digits.                     *)
(***************************************************************************)
EXTENDS Integers, Sequences, FiniteSets, TLC

VARIABLES
  pc, call, ret,                     \* one invocation of a pure function
  uploadedData, isSampleData,        \* App state
  activeTab, sampleFetch,            \* App: the mounted tab, the sample fetch
  isProcessing, error, fileInfo,     \* UploadTab state
  reads, lastEvent,                  \* file reads in flight, the last handler run
  selectedSheet, searchTerm,         \* DataTableTab state
  rowsPerPage, currentPage, sortConfig, selectedColumns,
  dashboardSheet, dashboardData,     \* DashboardTab state
  refreshKey, autoRefresh, intervals,\* DashboardTab: auto-refresh, its timers
  rendered                           \* what the last render read

pureVars == <<pc, call, ret>>
appVars == <<uploadedData, isSampleData, activeTab, sampleFetch>>
uploadVars == <<isProcessing, error, fileInfo, reads, lastEvent>>
tableVars == <<selectedSheet, searchTerm, rowsPerPage, currentPage, sortConfig,
               selectedColumns>>
dashState == <<dashboardSheet, dashboardData, refreshKey, autoRefresh, intervals>>
dashVars == <<dashState, rendered>>
vars == <<pureVars, appVars, uploadVars, tableVars, dashVars>>

----------------------------------------------------------------------------
(* Bounds of the model. *)
MaxRows == 2
MaxSearchRows == 3
MaxSortRows == 3
MaxListLen == 25
MaxPageSize == 10
MaxPageIndex == 4
MaxReads == 2
MaxTableRows == 51
MaxExportRows == 2
MaxAggRows == 2
MaxLongRows == 14
MaxShortRows == 1
MaxRefreshKey == 2

----------------------------------------------------------------------------
(* JavaScript values. *)
Undefined == [t |-> "undefined", s |-> <<>>, n |-> 0]
Null == [t |-> "null", s |-> <<>>, n |-> 0]
Str(chars) == [t |-> "string", s |-> chars, n |-> 0]
Num(k) == [t |-> "number", s |-> <<>>, n |-> k]
Bool(b) == [t |-> "boolean", s |-> <<>>, n |-> IF b THEN 1 ELSE 0]
EmptyString == Str(<<>>)
(* An object or a function, by the string String(v) gives. *)
Obj(text) == [t |-> "object", s |-> text, n |-> 0]

(* A number as parseFloat and Number() return it: NaN or an integer. *)
NaN == [nan |-> TRUE, n |-> 0]
Fin(k) == [nan |-> FALSE, n |-> k]
isNaN(x) == x.nan

DigitChars == <<"0", "1", "2", "3", "4", "5", "6", "7", "8", "9">>
IsDigit(c) == \E i \in 1..10 : DigitChars[i] = c
DigitVal(c) == (CHOOSE i \in 1..10 : DigitChars[i] = c) - 1
WhiteSpaceChars == {" ", "\t", "\n", "\r"}

RECURSIVE NatToString(_)
NatToString(k) ==
  IF k < 10 THEN <<DigitChars[k + 1]>>
  ELSE NatToString(k \div 10) \o <<DigitChars[(k % 10) + 1]>>

(* Number.prototype.toString, for an integer. *)
NumberToString(k) ==
  IF k < 0 THEN <<"-">> \o NatToString(0 - k) ELSE NatToString(k)

(* toString: value.toString(), and the conversion parseFloat, a property
   key and a template apply. *)
toString(v) ==
  CASE v.t = "string" -> v.s
    [] v.t = "number" -> NumberToString(v.n)
    [] v.t = "boolean" ->
         IF v.n = 1 THEN <<"t", "r", "u", "e">> ELSE <<"f", "a", "l", "s", "e">>
    [] v.t = "null" -> <<"n", "u", "l", "l">>
    [] v.t = "object" -> v.s
    [] OTHER -> <<"u", "n", "d", "e", "f", "i", "n", "e", "d">>

(* ToBoolean: the test of `value && ...`, `value || ''` and `if (value)`. *)
Truthy(v) ==
  CASE v.t = "string" -> Len(v.s) > 0
    [] v.t = "number" -> v.n # 0
    [] v.t = "boolean" -> v.n = 1
    [] v.t = "object" -> TRUE
    [] OTHER -> FALSE

(* a || b *)
OrElse(a, b) == IF Truthy(a) THEN a ELSE b

RECURSIVE TrimStart(_)
TrimStart(s) ==
  IF Len(s) > 0 /\ s[1] \in WhiteSpaceChars THEN TrimStart(Tail(s)) ELSE s

RECURSIVE TrimEnd(_)
TrimEnd(s) ==
  IF Len(s) > 0 /\ s[Len(s)] \in WhiteSpaceChars
  THEN TrimEnd(SubSeq(s, 1, Len(s) - 1)) ELSE s

(* String.prototype.trim *)
Trim(s) == TrimEnd(TrimStart(s))

RECURSIVE DigitPrefixLen(_)
DigitPrefixLen(s) ==
  IF Len(s) > 0 /\ IsDigit(s[1]) THEN 1 + DigitPrefixLen(Tail(s)) ELSE 0

RECURSIVE DigitsValue(_)
DigitsValue(s) ==
  IF Len(s) = 0 THEN 0
  ELSE 10 * DigitsValue(SubSeq(s, 1, Len(s) - 1)) + DigitVal(s[Len(s)])

HasSign(s) == Len(s) > 0 /\ s[1] \in {"+", "-"}
Unsigned(s) == IF HasSign(s) THEN Tail(s) ELSE s
SignOf(s) == IF Len(s) > 0 /\ s[1] = "-" THEN 0 - 1 ELSE 1

(* parseFloat(v): the longest decimal literal that starts the string of v,
   leading white space skipped; NaN when there is none. *)
parseFloat(v) ==
  LET s == TrimStart(toString(v))
      k == DigitPrefixLen(Unsigned(s))
  IN IF k = 0 THEN NaN
     ELSE Fin(SignOf(s) * DigitsValue(SubSeq(Unsigned(s), 1, k)))

(* String.prototype.toLowerCase *)
UpperChars ==
  <<"A", "B", "C", "D", "E", "F", "G", "H", "I", "J", "K", "L", "M",
    "N", "O", "P", "Q", "R", "S", "T", "U", "V", "W", "X", "Y", "Z">>
LowerChars ==
  <<"a", "b", "c", "d", "e", "f", "g", "h", "i", "j", "k", "l", "m",
    "n", "o", "p", "q", "r", "s", "t", "u", "v", "w", "x", "y", "z">>
LowerChar(c) ==
  IF \E i \in 1..Len(UpperChars) : UpperChars[i] = c
  THEN LowerChars[CHOOSE i \in 1..Len(UpperChars) : UpperChars[i] = c]
  ELSE c
toLowerCase(s) == [i \in 1..Len(s) |-> LowerChar(s[i])]

(* A binary, octal or hexadecimal integer literal: its base, 0 for a string
   that does not start as one. *)
RadixBase(s) ==
  IF Len(s) < 2 \/ s[1] # "0" THEN 0
  ELSE CASE s[2] \in {"b", "B"} -> 2
         [] s[2] \in {"o", "O"} -> 8
         [] s[2] \in {"x", "X"} -> 16
         [] OTHER -> 0
RadixChars ==
  <<"0", "1", "2", "3", "4", "5", "6", "7", "8", "9", "a", "b", "c", "d", "e", "f">>
IsRadixDigit(c, base) == \E i \in 1..base : RadixChars[i] = LowerChar(c)
RadixDigitVal(c) == (CHOOSE i \in 1..16 : RadixChars[i] = LowerChar(c)) - 1

RECURSIVE RadixValue(_, _)
RadixValue(s, base) ==
  IF Len(s) = 0 THEN 0
  ELSE base * RadixValue(SubSeq(s, 1, Len(s) - 1), base) + RadixDigitVal(s[Len(s)])

(* Number(v): the whole trimmed string must be a numeric literal (a signed
   decimal one, or an unsigned binary, octal or hexadecimal one), and the
   empty string is 0. *)
ToNumber(v) ==
  CASE v.t = "number" -> Fin(v.n)
    [] v.t = "boolean" -> Fin(v.n)
    [] v.t = "undefined" -> NaN
    [] v.t = "null" -> Fin(0)
    [] OTHER ->
         LET s == Trim(v.s)
             u == Unsigned(s)
         IN IF Len(s) = 0 THEN Fin(0)
            ELSE IF RadixBase(s) > 0
                 THEN IF Len(s) > 2
                           /\ \A i \in 3..Len(s) : IsRadixDigit(s[i], RadixBase(s))
                      THEN Fin(RadixValue(SubSeq(s, 3, Len(s)), RadixBase(s)))
                      ELSE NaN
            ELSE IF Len(u) > 0 /\ DigitPrefixLen(u) = Len(u)
                 THEN Fin(SignOf(s) * DigitsValue(u))
                 ELSE NaN

(* The global isFinite(v): Number(v) is neither NaN nor infinite. *)
isFinite(v) == ~ToNumber(v).nan

(* String.prototype.includes *)
includes(s, sub) ==
  \E i \in 0..(Len(s) - Len(sub)) : SubSeq(s, i + 1, i + Len(sub)) = sub

(* String.prototype.localeCompare under the root collation: white space,
   then punctuation, then digits, then letters; case decides only between
   strings equal otherwise, lower case first. *)
CollationOrder ==
  <<" ", "-", ",", "\"", "+", "0", "1", "2", "3", "4", "5", "6", "7", "8", "9",
    "a", "b", "c", "d", "e", "f", "g", "h", "i", "j", "k", "l", "m", "n", "o", "p",
    "q", "r", "s", "t", "u", "v", "w", "x", "y", "z">>
PrimaryWeight(c) ==
  CHOOSE i \in 1..Len(CollationOrder) : CollationOrder[i] = LowerChar(c)
CaseWeight(c) == IF LowerChar(c) = c THEN 0 ELSE 1

RECURSIVE CompareWeights(_, _)
CompareWeights(x, y) ==
  IF Len(x) = 0 /\ Len(y) = 0 THEN 0
  ELSE IF Len(x) = 0 THEN 0 - 1
  ELSE IF Len(y) = 0 THEN 1
  ELSE IF x[1] < y[1] THEN 0 - 1
  ELSE IF x[1] > y[1] THEN 1
  ELSE CompareWeights(Tail(x), Tail(y))

localeCompare(a, b) ==
  LET p == CompareWeights([i \in 1..Len(a) |-> PrimaryWeight(a[i])],
                          [i \in 1..Len(b) |-> PrimaryWeight(b[i])])
  IN IF p # 0 THEN p
     ELSE CompareWeights([i \in 1..Len(a) |-> CaseWeight(a[i])],
                         [i \in 1..Len(b) |-> CaseWeight(b[i])])

----------------------------------------------------------------------------
(* JavaScript objects: the sequence of [k, v] properties in the order
   Object.keys gives them, array-index keys first in ascending order, then
   the other keys in the order they were first set. *)
IsArrayIndex(k) ==
  /\ Len(k) > 0
  /\ DigitPrefixLen(k) = Len(k)
  /\ (Len(k) = 1 \/ k[1] # "0")

HasKey(obj, k) == \E i \in 1..Len(obj) : obj[i].k = k
KeyPos(obj, k) == CHOOSE i \in 1..Len(obj) : obj[i].k = k

(* What an object literal {} inherits from Object.prototype: its methods,
   and the accessor __proto__, which reads as Object.prototype itself and
   ignores the assignment of a value that is no object. *)
NativeFunction(name) ==
  Obj(<<"f", "u", "n", "c", "t", "i", "o", "n", " ">> \o name \o <<"(", ")", " ", "{", " ", "[", "n", "a", "t", "i", "v", "e", " ", "c", "o", "d", "e", "]", " ", "}">>)
ProtoKey == <<"_", "_", "p", "r", "o", "t", "o", "_", "_">>
PrototypeMethods ==
  {<<"_", "_", "d", "e", "f", "i", "n", "e", "G", "e", "t", "t", "e", "r", "_", "_">>,
   <<"_", "_", "d", "e", "f", "i", "n", "e", "S", "e", "t", "t", "e", "r", "_", "_">>,
   <<"h", "a", "s", "O", "w", "n", "P", "r", "o", "p", "e", "r", "t", "y">>,
   <<"_", "_", "l", "o", "o", "k", "u", "p", "G", "e", "t", "t", "e", "r", "_", "_">>,
   <<"_", "_", "l", "o", "o", "k", "u", "p", "S", "e", "t", "t", "e", "r", "_", "_">>,
   <<"i", "s", "P", "r", "o", "t", "o", "t", "y", "p", "e", "O", "f">>,
   <<"p", "r", "o", "p", "e", "r", "t", "y", "I", "s", "E", "n", "u", "m", "e", "r", "a", "b", "l", "e">>,
   <<"t", "o", "S", "t", "r", "i", "n", "g">>,
   <<"v", "a", "l", "u", "e", "O", "f">>,
   <<"t", "o", "L", "o", "c", "a", "l", "e", "S", "t", "r", "i", "n", "g">>}
ObjectPrototype(k) ==
  IF k = <<"c", "o", "n", "s", "t", "r", "u", "c", "t", "o", "r">> THEN NativeFunction(<<"O", "b", "j", "e", "c", "t">>)
  ELSE IF k = ProtoKey THEN Obj(<<"[", "o", "b", "j", "e", "c", "t", " ", "O", "b", "j", "e", "c", "t", "]">>)
  ELSE IF k \in PrototypeMethods THEN NativeFunction(k)
  ELSE Undefined

(* obj[k]: the own property, else the inherited one, else undefined *)
ObjGet(obj, k) ==
  IF HasKey(obj, k) THEN obj[KeyPos(obj, k)].v
  ELSE ObjectPrototype(k)

(* The properties that stay before a new array-index key k. *)
IndexKeysBefore(obj, k) ==
  Cardinality({i \in 1..Len(obj) :
                 IsArrayIndex(obj[i].k) /\ DigitsValue(obj[i].k) < DigitsValue(k)})
IndexKeyCount(obj) == Cardinality({i \in 1..Len(obj) : IsArrayIndex(obj[i].k)})

(* obj[k] = v *)
ObjSet(obj, k, v) ==
  IF k = ProtoKey THEN obj
  ELSE IF HasKey(obj, k) THEN [obj EXCEPT ![KeyPos(obj, k)].v = v]
  ELSE LET at == IF IsArrayIndex(k) THEN IndexKeysBefore(obj, k)
                 ELSE Len(obj)
       IN SubSeq(obj, 1, at) \o <<[k |-> k, v |-> v]>> \o SubSeq(obj, at + 1, Len(obj))

ObjectKeys(obj) == [i \in 1..Len(obj) |-> obj[i].k]
ObjectValues(obj) == [i \in 1..Len(obj) |-> obj[i].v]

----------------------------------------------------------------------------
(* The sheet normalizers.  A raw sheet is what sheet_to_json(.., {header: 1})
   returns: a sequence of rows, each a sequence of cells, the first row the
   header; Undefined is a hole of the sparse row array. *)

(* row[index], undefined past the row's end *)
CellAt(row, index) == IF index <= Len(row) THEN row[index] ELSE Undefined

(* headers.forEach((header, index) => { obj[header] = row[index] || '' }),
   which visits no hole of headers *)
RECURSIVE BuildRecordFrom(_, _, _, _)
BuildRecordFrom(headers, row, index, obj) ==
  IF index > Len(headers) THEN obj
  ELSE BuildRecordFrom(headers, row, index + 1,
         IF headers[index] = Undefined THEN obj
         ELSE ObjSet(obj, toString(headers[index]),
                     OrElse(CellAt(row, index), EmptyString)))

BuildRecord(headers, row) == BuildRecordFrom(headers, row, 1, <<>>)

(* row.some(cell => cell !== undefined && cell !== '') *)
RowHasContentMutant(row) == \E i \in 1..Len(row) : Truthy(row[i])
RowHasContent(row) ==
  \E i \in 1..Len(row) : row[i] # Undefined /\ row[i] # EmptyString

(* processExcelFile: the records of one sheet with at least one row *)
NormalizeUploadSheet(jsonData) ==
  LET headers == jsonData[1]
      rows == SelectSeq(Tail(jsonData), RowHasContent)
  IN [i \in 1..Len(rows) |-> BuildRecord(headers, rows[i])]

(* Object.values(row).some(value => value && value.toString().trim()) *)
RecordHasContent(obj) ==
  \E i \in 1..Len(obj) :
     Truthy(obj[i].v) /\ Len(Trim(toString(obj[i].v))) > 0

(* loadSampleData: the records of one sheet with at least one row *)
NormalizeSampleSheet(jsonData) ==
  LET headers == jsonData[1]
      rows == Tail(jsonData)
      data == [i \in 1..Len(rows) |-> BuildRecord(headers, rows[i])]
  IN SelectSeq(data, RecordHasContent)

----------------------------------------------------------------------------
(* The inputs of the pure specifications. *)
SeqsUpTo(S, k) == UNION {[1..m -> S] : m \in 0..k}

A == Str(<<"a">>)
ColA == Str(<<"A">>)
ColB == Str(<<"B">>)

(* Decoded cells of an uploaded sheet (raw values, holes for blank cells). *)
UploadCells == {Undefined, EmptyString, Str(<<" ">>), A, Num(0), Num(5)}
UploadRows ==
  {r \in SeqsUpTo(UploadCells, 2) : Len(r) > 0 => r[Len(r)] # Undefined}
UploadHeaders ==
  {<<ColA>>, <<ColA, ColB>>, <<ColA, ColA>>, <<Undefined, ColA>>}
UploadSheets(maxRows) ==
  {<<h>> \o rows : h \in UploadHeaders, rows \in SeqsUpTo(UploadRows, maxRows)}

(* Cells of the sample sheet (raw: false, defval: ''): formatted text, and
   every row as wide as the sheet. *)
SampleCells == {EmptyString, Str(<<" ">>), A, Str(<<"0">>)}
SampleHeaders == {<<ColA>>, <<ColA, ColB>>, <<ColA, ColA>>, <<EmptyString, ColA>>}
SampleSheets(maxRows) ==
  {<<h>> \o rows : h \in SampleHeaders, rows \in SeqsUpTo(SeqsUpTo(SampleCells, 2), maxRows)}

NormalizeCalls(maxRows) ==
  {[fn |-> "processExcelFile", sheet |-> sh] : sh \in UploadSheets(maxRows)}
  \cup {[fn |-> "loadSampleData", sheet |-> sh] :
          sh \in {x \in SampleSheets(maxRows) : \A i \in 1..Len(x) : Len(x[i]) = Len(x[1])}}


----------------------------------------------------------------------------
(* The parts of the state a specification leaves alone. *)
NoCall == [fn |-> "none"]
PureIdle == pc = "idle" /\ call = NoCall /\ ret = <<>>

NullData == [null |-> TRUE, obj |-> <<>>]
Data(obj) == [null |-> FALSE, obj |-> obj]
NoEvent == [op |-> "none"]
NoFileInfo == [set |-> FALSE, name |-> "", sheets |-> 0, records |-> 0]

AppIdle ==
  /\ uploadedData = NullData /\ isSampleData = FALSE
  /\ activeTab = "upload" /\ sampleFetch = "none"
UploadIdle ==
  /\ isProcessing = FALSE /\ error = "null" /\ fileInfo = NoFileInfo
  /\ reads = <<>> /\ lastEvent = NoEvent
NoSort == [key |-> Null, direction |-> "asc"]
TableFresh ==
  /\ selectedSheet = <<>> /\ searchTerm = <<>> /\ rowsPerPage = 100
  /\ currentPage = 1 /\ sortConfig = NoSort /\ selectedColumns = <<>>
NoDashboardData == [null |-> TRUE, value |-> <<>>]
(* What the first render reads: no workbook, and the initial state of a
   view.  fresh: uploadedData was not set since the render.  queued: a
   setSelectedColumns called by the columns effect waits in the queue, which
   the renders of clicks pass over; stale: the array that the queue gives is
   another array (Object.is) than the one rendered. *)
Unrendered ==
  [data |-> NullData, fresh |-> TRUE, sheet |-> <<>>, columns |-> <<>>, key |-> 0,
   due |-> {}, queued |-> FALSE, stale |-> FALSE]
DashboardFresh ==
  /\ dashboardSheet = <<>> /\ dashboardData = NoDashboardData
  /\ refreshKey = 0 /\ autoRefresh = FALSE /\ intervals = 0
  /\ rendered = Unrendered
TableIdle == TableFresh /\ DashboardFresh

----------------------------------------------------------------------------
(* SpecNormalize: one sheet through one of the two normalizers. *)
InitNormalize ==
  /\ pc = "ready" /\ call \in NormalizeCalls(MaxRows) /\ ret = <<>>
  /\ AppIdle /\ UploadIdle /\ TableIdle

RunNormalizeUpload ==
  /\ pc = "ready" /\ call.fn = "processExcelFile"
  /\ ret' = NormalizeUploadSheet(call.sheet)
  /\ pc' = "done"
  /\ UNCHANGED <<call, appVars, uploadVars, tableVars, dashVars>>

RunNormalizeSample ==
  /\ pc = "ready" /\ call.fn = "loadSampleData"
  /\ ret' = NormalizeSampleSheet(call.sheet)
  /\ pc' = "done"
  /\ UNCHANGED <<call, appVars, uploadVars, tableVars, dashVars>>

NextNormalize == RunNormalizeUpload \/ RunNormalizeSample
SpecNormalize == InitNormalize /\ [][NextNormalize]_vars

(* The data rows of the call's sheet that have a cell other than undefined
   and the empty string, by position. *)
NonEmptyRowIndexes ==
  LET rows == Tail(call.sheet)
  IN {i \in 1..Len(rows) :
        \E j \in 1..Len(rows[i]) : rows[i][j] \notin {Undefined, EmptyString}}

(* The k-th smallest element of a set of positions. *)
KthOf(S, k) == CHOOSE i \in S : Cardinality({j \in S : j < i}) = k - 1

(* The returned records are the records of exactly the non-empty rows, in
   the rows' order. *)
DropsExactlyEmptyRows ==
  /\ Len(ret) = Cardinality(NonEmptyRowIndexes)
  /\ \A k \in 1..Len(ret) :
       ret[k] = BuildRecord(call.sheet[1], Tail(call.sheet)[KthOf(NonEmptyRowIndexes, k)])

(* C2: normalize drops a data row if and only if every cell of the row is
   undefined or the empty string: the records are those of the rows with a
   non-empty cell, as many and in the same order, for both normalizers. *)
C2_NormalizeDropsExactlyEmptyRows ==
  (pc = "done" /\ call.fn \in {"processExcelFile", "loadSampleData"})
    => DropsExactlyEmptyRows

(* The same, of the upload normalizer alone (which holds). *)
C2_UploadDropsExactlyEmptyRows ==
  (pc = "done" /\ call.fn = "processExcelFile") => DropsExactlyEmptyRows

----------------------------------------------------------------------------
(* The column classifier of processDashboardData. *)

(* !isNaN(parseFloat(row[col])) && isFinite(row[col]) *)
IsNumericCell(v) == ~isNaN(parseFloat(v)) /\ isFinite(v)

(* row[col] && row[col].toString().trim() *)
IsNonBlankCell(v) == Truthy(v) /\ Len(Trim(toString(v))) > 0

(* data.some(row => numeric(row[col])) *)
IsNumericColumn(data, col) ==
  \E i \in 1..Len(data) : IsNumericCell(ObjGet(data[i], col))

InSeq(x, seq) == \E i \in 1..Len(seq) : seq[i] = x

(* !numericColumns.includes(col) && data.some(row => nonBlank(row[col])) *)
IsCategoricalColumnMutant(data, numericColumns, col) ==
  \E i \in 1..Len(data) : IsNonBlankCell(ObjGet(data[i], col))
IsCategoricalColumn(data, numericColumns, col) ==
  /\ ~InSeq(col, numericColumns)
  /\ \E i \in 1..Len(data) : IsNonBlankCell(ObjGet(data[i], col))

(* processDashboardData for a sheet with records: the dashboardData set *)
processDashboardData(data) ==
  LET columns == ObjectKeys(data[1])
      numericColumns == SelectSeq(columns, LAMBDA col : IsNumericColumn(data, col))
      categoricalColumns ==
        SelectSeq(columns, LAMBDA col : IsCategoricalColumn(data, numericColumns, col))
  IN [data |-> data, columns |-> columns, numericColumns |-> numericColumns,
      categoricalColumns |-> categoricalColumns, totalRecords |-> Len(data)]

(* SpecClassify: the classifier on the records the upload normalizer makes of
   a decoded sheet. *)
ClassifyCellsA ==
  {Undefined, Str(<<" ">>), A, Str(<<"1">>), Str(<<"1", "a">>), Str(<<" ", "2">>),
   Str(<<"0", "b", "1", "1">>), Num(0), Num(5)}
ClassifyCellsB == {Undefined, A, Str(<<"1">>), Str(<<"1", "a">>)}
ClassifyRows == {<<a, b>> : a \in ClassifyCellsA, b \in ClassifyCellsB}
ClassifySheets(maxRows) ==
  {<<<<ColA, ColB>>>> \o rows : rows \in SeqsUpTo(ClassifyRows, maxRows)}
ClassifyCalls(maxRows) ==
  {[fn |-> "processDashboardData", data |-> NormalizeUploadSheet(sh)] :
     sh \in {x \in ClassifySheets(maxRows) : Len(NormalizeUploadSheet(x)) > 0}}

InitClassify ==
  /\ pc = "ready" /\ call \in ClassifyCalls(MaxRows) /\ ret = <<>>
  /\ AppIdle /\ UploadIdle /\ TableIdle

RunClassify ==
  /\ pc = "ready" /\ call.fn = "processDashboardData"
  /\ ret' = processDashboardData(call.data)
  /\ pc' = "done"
  /\ UNCHANGED <<call, appVars, uploadVars, tableVars, dashVars>>

NextClassify == RunClassify
SpecClassify == InitClassify /\ [][NextClassify]_vars

Classified == pc = "done" /\ call.fn = "processDashboardData"
SeqToSet(seq) == {seq[i] : i \in 1..Len(seq)}

(* A value that is a finite decimal number: a number, or text that, white
   space around it aside, is an optional sign and one or more digits. *)
IsDecimalText(s) ==
  LET body == Trim(s)
      digits == IF Len(body) > 0 /\ body[1] \in {"+", "-"} THEN Tail(body) ELSE body
  IN Len(digits) > 0 /\ \A i \in 1..Len(digits) : IsDigit(digits[i])
ParsesAsFiniteDecimal(v) ==
  v.t = "number" \/ (v.t = "string" /\ IsDecimalText(v.s))

ColumnValues(data, col) == {ObjGet(data[i], col) : i \in 1..Len(data)}

(* C3: a column is in the numeric set exactly when at least one record's
   value for it parses as a finite decimal number.  A cell such as "0b11",
   which is no decimal number but passes both tests of IsNumericCell,
   refutes it. *)
C3_NumericIffSomeCellParses ==
  Classified =>
    SeqToSet(ret.numericColumns) =
      {col \in SeqToSet(ret.columns) :
         \E v \in ColumnValues(call.data, col) : ParsesAsFiniteDecimal(v)}

(* A value that is neither empty nor white space only. *)
IsNonBlankValue(v) ==
  v # Undefined /\ \E i \in 1..Len(toString(v)) : toString(v)[i] \notin WhiteSpaceChars

(* C4: the categorical set is exactly the columns that are not numeric and
   have a non-blank value; the two sets are disjoint, and a column whose
   every value is blank is in neither. *)
C4_CategoricalIffNotNumericAndNonBlank ==
  Classified =>
    /\ SeqToSet(ret.categoricalColumns) =
         {col \in SeqToSet(ret.columns) :
            /\ col \notin SeqToSet(ret.numericColumns)
            /\ \E v \in ColumnValues(call.data, col) : IsNonBlankValue(v)}
    /\ SeqToSet(ret.categoricalColumns) \cap SeqToSet(ret.numericColumns) = {}
    /\ \A col \in SeqToSet(ret.columns) :
         (\A v \in ColumnValues(call.data, col) : ~IsNonBlankValue(v))
           => col \notin SeqToSet(ret.categoricalColumns) \cup SeqToSet(ret.numericColumns)

(* One column numeric with a text value beside the number, one categorical,
   or one blank throughout. *)
C4_Witness ==
  /\ Classified
  /\ \E col \in SeqToSet(ret.numericColumns) :
       \E v \in ColumnValues(call.data, col) : v = A
  /\ \E col \in SeqToSet(ret.columns) :
       /\ col \notin SeqToSet(ret.categoricalColumns) \cup SeqToSet(ret.numericColumns)
       /\ \E v \in ColumnValues(call.data, col) : v = Str(<<" ">>)

----------------------------------------------------------------------------
(* The data table's pipeline: filteredData, sortedData, paginatedData. *)

(* Object.values(row).some(value =>
     value && value.toString().toLowerCase().includes(searchLower)) *)
RowMatchesMutant(row, searchLower) ==
  \E i \in 1..Len(row) :
     Truthy(row[i].v) /\ includes(toString(row[i].v), searchLower)
RowMatches(row, searchLower) ==
  \E i \in 1..Len(row) :
     Truthy(row[i].v) /\ includes(toLowerCase(toString(row[i].v)), searchLower)

(* the filteredData memo *)
filteredDataMutant(currentData, term) ==
  SelectSeq(currentData, LAMBDA row : RowMatches(row, toLowerCase(term)))
filteredData(currentData, term) ==
  IF Len(currentData) = 0 THEN <<>>
  ELSE IF Len(Trim(term)) > 0
       THEN SelectSeq(currentData, LAMBDA row : RowMatches(row, toLowerCase(term)))
       ELSE currentData

(* The comparator handed to sort: a negative, zero or positive number. *)
compare(a, b, cfg) ==
  LET aValue == ObjGet(a, cfg.key.s)
      bValue == ObjGet(b, cfg.key.s)
      aNumeric == parseFloat(aValue)
      bNumeric == parseFloat(bValue)
      aString == toString(OrElse(aValue, EmptyString))
      bString == toString(OrElse(bValue, EmptyString))
  IN IF ~isNaN(aNumeric) /\ ~isNaN(bNumeric)
     THEN IF cfg.direction = "asc" THEN aNumeric.n - bNumeric.n
          ELSE bNumeric.n - aNumeric.n
     ELSE IF cfg.direction = "asc" THEN localeCompare(aString, bString)
          ELSE localeCompare(bString, aString)

(* Array.prototype.sort as the engine runs it on an array shorter than 64
   (V8's TimSort: the leading run is found and, when strictly descending,
   reversed; every later element is put in place by binary insertion). *)
RECURSIVE RunLength(_, _, _, _)
RunLength(arr, cfg, idx, descending) ==
  IF idx > Len(arr) THEN idx - 1
  ELSE LET order == compare(arr[idx], arr[idx - 1], cfg)
       IN IF (descending /\ order >= 0) \/ (~descending /\ order < 0)
          THEN idx - 1
          ELSE RunLength(arr, cfg, idx + 1, descending)

Reverse(seq) == [i \in 1..Len(seq) |-> seq[Len(seq) + 1 - i]]

CountAndMakeRun(arr, cfg) ==
  LET descending == compare(arr[2], arr[1], cfg) < 0
      run == RunLength(arr, cfg, 3, descending)
  IN [run |-> run,
      arr |-> IF descending
              THEN Reverse(SubSeq(arr, 1, run)) \o SubSeq(arr, run + 1, Len(arr))
              ELSE arr]

RECURSIVE InsertionPoint(_, _, _, _, _)
InsertionPoint(arr, cfg, pivot, left, right) ==
  IF left >= right THEN left
  ELSE LET mid == left + ((right - left) \div 2)
       IN IF compare(pivot, arr[mid], cfg) < 0
          THEN InsertionPoint(arr, cfg, pivot, left, mid)
          ELSE InsertionPoint(arr, cfg, pivot, mid + 1, right)

RECURSIVE BinaryInsertionSort(_, _, _)
BinaryInsertionSort(arr, cfg, start) ==
  IF start > Len(arr) THEN arr
  ELSE LET at == InsertionPoint(arr, cfg, arr[start], 1, start)
       IN BinaryInsertionSort(
            SubSeq(arr, 1, at - 1) \o <<arr[start]>> \o SubSeq(arr, at, start - 1)
              \o SubSeq(arr, start + 1, Len(arr)),
            cfg, start + 1)

ArraySort(arr, cfg) ==
  IF Len(arr) < 2 THEN arr
  ELSE LET made == CountAndMakeRun(arr, cfg)
       IN BinaryInsertionSort(made.arr, cfg, made.run + 1)

(* the sortedData memo: [...filteredData].sort(comparator) *)
sortedData(filtered, cfg) ==
  IF ~Truthy(cfg.key) THEN filtered ELSE ArraySort(filtered, cfg)

(* Array.prototype.slice(start, end), for 0 <= start *)
slice(seq, start, end) ==
  SubSeq(seq, start + 1, IF end < Len(seq) THEN end ELSE Len(seq))

(* the paginatedData memo *)
paginatedDataMutant(sorted, page, rows) ==
  slice(sorted, page * rows, page * rows + rows)
paginatedData(sorted, page, rows) ==
  LET start == (page - 1) * rows
      end == start + rows
  IN slice(sorted, start, end)

(* Math.ceil(sortedData.length / rowsPerPage) *)
totalPages(sorted, rows) == (Len(sorted) + rows - 1) \div rows

----------------------------------------------------------------------------
(* SpecSort: sortedData on the records of a decoded sheet with columns A
   and B, for each sort column and direction. *)
SortCellsA ==
  {Undefined, Str(<<"2">>), Str(<<" ", "3">>), Str(<<"-">>), Str(<<"1", "a">>),
   Str(<<"1", "b">>), Str(<<"1", "0">>)}
SortCellsB == {A, Str(<<"b">>)}
SortRows == {<<a, b>> : a \in SortCellsA, b \in SortCellsB}
SortSheets(maxRows) ==
  {<<<<ColA, ColB>>>> \o rows : rows \in SeqsUpTo(SortRows, maxRows)}
SortConfigs == {[key |-> k, direction |-> d] : k \in {ColA, ColB}, d \in {"asc", "desc"}}
SortCalls(maxRows) ==
  {[fn |-> "sortedData", data |-> NormalizeUploadSheet(sh), cfg |-> c] :
     sh \in SortSheets(maxRows), c \in SortConfigs}

InitSort ==
  /\ pc = "ready" /\ call \in SortCalls(MaxSortRows) /\ ret = <<>>
  /\ AppIdle /\ UploadIdle /\ TableIdle

RunSort ==
  /\ pc = "ready" /\ call.fn = "sortedData"
  /\ ret' = sortedData(call.data, call.cfg)
  /\ pc' = "done"
  /\ UNCHANGED <<call, appVars, uploadVars, tableVars, dashVars>>

NextSort == RunSort
SpecSort == InitSort /\ [][NextSort]_vars

Sorted == pc = "done" /\ call.fn = "sortedData"
Sign(k) == IF k < 0 THEN 0 - 1 ELSE IF k > 0 THEN 1 ELSE 0

(* The comparison the claim describes, ascending: numeric when both values
   are finite decimal numbers, else of the values as strings. *)
ClaimedCompare(a, b, key) ==
  LET aValue == ObjGet(a, key.s)
      bValue == ObjGet(b, key.s)
  IN IF ParsesAsFiniteDecimal(aValue) /\ ParsesAsFiniteDecimal(bValue)
     THEN Sign(ToNumber(aValue).n - ToNumber(bValue).n)
     ELSE localeCompare(toString(aValue), toString(bValue))

(* C7: two records are compared numerically if and only if both values
   parse as finite numbers, as strings otherwise, and descending is the
   exact reverse of ascending: the comparator agrees in sign with the
   described comparison on every two records, and the sorted records are in
   the described order. *)
C7_NumericIffBothParse ==
  Sorted =>
    /\ \A i, j \in 1..Len(call.data) :
         Sign(compare(call.data[i], call.data[j], call.cfg)) =
           IF call.cfg.direction = "asc"
           THEN ClaimedCompare(call.data[i], call.data[j], call.cfg.key)
           ELSE 0 - ClaimedCompare(call.data[i], call.data[j], call.cfg.key)
    /\ \A k \in 1..(Len(ret) - 1) :
         IF call.cfg.direction = "asc"
         THEN ClaimedCompare(ret[k], ret[k + 1], call.cfg.key) <= 0
         ELSE ClaimedCompare(ret[k], ret[k + 1], call.cfg.key) >= 0

(* out is in with its records permuted, those that compare equal under cfg
   in their order of in. *)
IsStablePermutation(out, in, cfg) ==
  /\ Len(out) = Len(in)
  /\ \E p \in [1..Len(in) -> 1..Len(in)] :
       /\ \A k, l \in 1..Len(in) : k # l => p[k] # p[l]
       /\ \A k \in 1..Len(in) : out[k] = in[p[k]]
       /\ \A k, l \in 1..Len(in) :
            (k < l /\ compare(in[p[k]], in[p[l]], cfg) = 0) => p[k] < p[l]

AscendingA == [key |-> ColA, direction |-> "asc"]

(* C8: sort is stable in both directions and returns a permutation of its
   input; sorting the A-sorted records by B and then by A again keeps the
   A-sorted order among the records tied on B. *)
C8_SortStablePermutation ==
  Sorted =>
    /\ IsStablePermutation(ret, call.data, call.cfg)
    /\ call.cfg.key = ColB =>
         LET s1 == sortedData(call.data, AscendingA)
             s2 == sortedData(s1, call.cfg)
             s3 == sortedData(s2, AscendingA)
         IN IsStablePermutation(s3, s1, call.cfg)

----------------------------------------------------------------------------
(* SpecSearch: filteredData on the records of a decoded sheet, for each
   search term. *)
SearchCellsA == {Undefined, Str(<<"A", "b">>), Num(12), Str(<<"b", " ", "A">>)}
SearchCellsB == {Num(0), A, Str(<<"S", "1">>)}
SearchRows == {<<a, b>> : a \in SearchCellsA, b \in SearchCellsB}
SearchSheets(maxRows) ==
  {<<<<ColA, ColB>>>> \o rows : rows \in SeqsUpTo(SearchRows, maxRows)}
SearchTerms ==
  {<<>>, <<" ">>, <<"a">>, <<"A", "B">>, <<" ", "a">>, <<"1">>, <<"0">>, <<"s">>}
SearchCalls(maxRows) ==
  {[fn |-> "filteredData", data |-> NormalizeUploadSheet(sh), term |-> t] :
     sh \in SearchSheets(maxRows), t \in SearchTerms}

InitSearch ==
  /\ pc = "ready" /\ call \in SearchCalls(MaxSearchRows) /\ ret = <<>>
  /\ AppIdle /\ UploadIdle /\ TableIdle

RunSearch ==
  /\ pc = "ready" /\ call.fn = "filteredData"
  /\ ret' = filteredData(call.data, call.term)
  /\ pc' = "done"
  /\ UNCHANGED <<call, appVars, uploadVars, tableVars, dashVars>>

NextSearch == RunSearch
SpecSearch == InitSearch /\ [][NextSearch]_vars

Searched == pc = "done" /\ call.fn = "filteredData"

IsBlankTerm(term) == \A i \in 1..Len(term) : term[i] \in WhiteSpaceChars
SameLetter(c, d) == c = d \/ LowerChar(c) = LowerChar(d)
(* text contains term, letter case aside *)
ContainsIgnoringCase(text, term) ==
  \E i \in 0..(Len(text) - Len(term)) :
     \A j \in 1..Len(term) : SameLetter(text[i + j], term[j])
KeptBySearch(row, term) ==
  IsBlankTerm(term)
    \/ \E i \in 1..Len(row) : ContainsIgnoringCase(toString(row[i].v), term)

(* C5: search keeps a record if and only if one of its values contains the
   term, letter case aside, and an empty or white-space term keeps all. *)
C5_SearchKeepsIffSomeValueContains ==
  Searched => ret = SelectSeq(call.data, LAMBDA row : KeptBySearch(row, call.term))

(* A term in another letter case than the value keeps one record and drops
   another. *)
C5_Witness ==
  /\ Searched /\ call.term = <<"A", "B">>
  /\ Len(ret) > 0 /\ Len(ret) < Len(call.data)

(* out is in with some records left out, the others in their order. *)
IsSubsequence(out, in) ==
  \E f \in [1..Len(out) -> 1..Len(in)] :
     /\ \A k, l \in 1..Len(out) : k < l => f[k] < f[l]
     /\ \A k \in 1..Len(out) : out[k] = in[f[k]]

(* C6: search with the empty term returns the records as they are, and
   search with any term returns a subsequence of them. *)
C6_SearchIsSubsequence ==
  Searched =>
    /\ Len(ret) <= Len(call.data)
    /\ IsSubsequence(ret, call.data)
    /\ call.term = <<>> => ret = call.data

(* The empty term on records one of which has only empty values. *)
C6_Witness ==
  /\ Searched /\ call.term = <<>> /\ Len(ret) = MaxSearchRows
  /\ \E k \in 1..Len(ret) : \A i \in 1..Len(ret[k]) : ret[k][i].v = EmptyString

----------------------------------------------------------------------------
(* SpecPaginate: the three memos in their order, search then sort then
   paginate, on up to MaxListLen records. *)
ColId == Str(<<"I", "d">>)
PageRecord(i) ==
  BuildRecord(<<ColId, ColA>>, <<Str(NatToString(i)), Str(NatToString((i * 7) % 5))>>)
PageData(len) == [i \in 1..len |-> PageRecord(i)]
PageConfigs ==
  {NoSort, AscendingA, [key |-> ColId, direction |-> "desc"]}
PaginateCalls(maxLen, maxSize, maxIndex) ==
  {[fn |-> "paginatedData", data |-> PageData(len), term |-> t, cfg |-> c,
    rows |-> r, page |-> p] :
     len \in 0..maxLen, t \in {<<>>, <<"1">>}, c \in PageConfigs,
     r \in 1..maxSize, p \in 1..maxIndex}

InitPaginate ==
  /\ pc = "ready" /\ call \in PaginateCalls(MaxListLen, MaxPageSize, MaxPageIndex) /\ ret = <<>>
  /\ AppIdle /\ UploadIdle /\ TableIdle

RunPaginate ==
  /\ pc = "ready" /\ call.fn = "paginatedData"
  /\ LET filtered == filteredData(call.data, call.term)
         sorted == sortedData(filtered, call.cfg)
     IN ret' = [sorted |-> sorted,
                page |-> paginatedData(sorted, call.page, call.rows),
                totalPages |-> totalPages(sorted, call.rows)]
  /\ pc' = "done"
  /\ UNCHANGED <<call, appVars, uploadVars, tableVars, dashVars>>

NextPaginate == RunPaginate
SpecPaginate == InitPaginate /\ [][NextPaginate]_vars

Paginated == pc = "done" /\ call.fn = "paginatedData"

(* C10: the page is the records at positions [(page-1)*rows, page*rows) of
   the search-then-sort result, empty when the start is at or past the end;
   the page count is the ceiling of length / rows; of 25 records by 10,
   page 3 has 5 and page 4 none. *)
C10_PageIsSliceOfSorted ==
  Paginated =>
    LET sorted == sortedData(filteredData(call.data, call.term), call.cfg)
        start == (call.page - 1) * call.rows
        left == Len(sorted) - start
    IN /\ Len(ret.page) = IF left <= 0 THEN 0
                          ELSE IF left < call.rows THEN left ELSE call.rows
       /\ \A k \in 1..Len(ret.page) : ret.page[k] = sorted[start + k]
       /\ ret.totalPages * call.rows >= Len(sorted)
       /\ (ret.totalPages - 1) * call.rows < Len(sorted)
       /\ (Len(sorted) = 25 /\ call.rows = 10 /\ call.page = 3) => Len(ret.page) = 5
       /\ (Len(sorted) = 25 /\ call.rows = 10 /\ call.page = 4) => ret.page = <<>>

(* 25 sorted records by 10: the third page is the last five. *)
C10_Witness ==
  /\ Paginated /\ Len(ret.sorted) = 25 /\ call.rows = 10 /\ call.page = 3
  /\ call.cfg = AscendingA /\ ret.totalPages = 3
  /\ Len(ret.page) = 5 /\ ret.page[5] = ret.sorted[25]

----------------------------------------------------------------------------
(* Spec: App with the upload view, its file reads and the sample fetch. *)

(* A decoded workbook: its sheets in SheetNames order, each [name, json]. *)
SheetS1 == <<<<ColA, ColB>>, <<A, Num(5)>>, <<>>, <<Str(<<"b">>), Str(<<"1", "a">>)>>>>
SheetS2 == <<<<ColB>>, <<Num(0)>>>>
SheetT == <<<<ColA>>, <<A>>>>
NameS1 == <<"S", "1">>
NameS2 == <<"S", "2">>
NameT == <<"T">>
BookOne == <<[name |-> NameS1, json |-> SheetS1], [name |-> NameS2, json |-> SheetS2]>>
BookTwo == <<[name |-> NameT, json |-> SheetT], [name |-> NameS2, json |-> <<>>]>>

(* A file the user can pick: what handleFileSelect sees of it.  valid: its
   type or name passes the check. *)
Files ==
  {[name |-> "book.xlsx", valid |-> TRUE],
   [name |-> "notes.txt", valid |-> FALSE]}

(* What the FileReader hands to onload as e.target.result, by what XLSX
   makes of it.  book: the sheets of the workbook; throwsAt: 0 when
   XLSX.read throws, k when decoding sheet k throws, more than the number
   of sheets when nothing throws.  Whether a read ends with onload or with
   onerror, and with which content, is known when the callback runs. *)
Contents ==
  {[throwsAt |-> 3, book |-> BookOne],
   [throwsAt |-> 3, book |-> BookTwo],
   [throwsAt |-> 2, book |-> BookOne],
   [throwsAt |-> 0, book |-> <<>>]}

(* The body of workbook.SheetNames.forEach up to sheet index - 1:
   processedData and totalRecords so far. *)
RECURSIVE ProcessSheetsFrom(_, _, _)
ProcessSheetsFrom(book, index, acc) ==
  IF index > Len(book) THEN acc
  ELSE ProcessSheetsFrom(book, index + 1,
         IF Len(book[index].json) > 0
         THEN LET sheetData == NormalizeUploadSheet(book[index].json)
              IN [processedData |-> ObjSet(acc.processedData, book[index].name, sheetData),
                  totalRecords |-> acc.totalRecords + Len(sheetData)]
         ELSE acc)

ProcessSheets(book) ==
  ProcessSheetsFrom(book, 1, [processedData |-> <<>>, totalRecords |-> 0])

(* Whether the try block of reader.onload throws on the content. *)
DecodeThrows(content) == content.throwsAt <= Len(content.book)

(* loadSampleData: every sheet of the sample workbook that has records *)
RECURSIVE LoadSampleFrom(_, _, _)
LoadSampleFrom(book, index, result) ==
  IF index > Len(book) THEN result
  ELSE LoadSampleFrom(book, index + 1,
         IF Len(book[index].json) > 0
              /\ Len(NormalizeSampleSheet(book[index].json)) > 0
         THEN ObjSet(result, book[index].name, NormalizeSampleSheet(book[index].json))
         ELSE result)
SampleBook ==
  <<[name |-> <<"D", "e", "m", "o">>,
     json |-> <<<<ColA, ColB>>, <<A, Str(<<"1">>)>>, <<Str(<<" ">>), EmptyString>>>>]>>
loadSampleData == LoadSampleFrom(SampleBook, 1, <<>>)

(* The views App mounts under the tabs: their memos and effects.  A state
   setter called by a click is rendered at once, by a render that reads
   what the view showed and what clicks have set; a setter called by a
   reader or fetch callback, by a timer or by an effect waits for a later
   render (Render), which reads everything set so far.  The state
   variables hold the values set so far; rendered holds what the last
   render read.  An effect runs after the render it belongs to, with the
   values that render read: within the click for the render of a click,
   and as a task of its own (RunEffects) for a Render; rendered.due names
   the effects of the last Render that have not run yet.  They run before
   anything else is rendered, so a click that comes first has called its
   setters before they call theirs. *)

(* Object.keys(uploadedData) *)
sheetsOf(uploaded) == IF uploaded.null THEN <<>> ELSE ObjectKeys(uploaded.obj)
sheets == sheetsOf(rendered.data)

(* the currentData memo, for a workbook and a sheet selection *)
currentDataIn(uploaded, sheet) ==
  IF uploaded.null \/ Len(sheet) = 0 \/ ~HasKey(uploaded.obj, sheet)
  THEN <<>>
  ELSE ObjGet(uploaded.obj, sheet)
currentData == currentDataIn(rendered.data, rendered.sheet)

(* the availableColumns memo *)
availableColumnsIn(uploaded, sheet) ==
  IF Len(currentDataIn(uploaded, sheet)) = 0 THEN <<>>
  ELSE ObjectKeys(currentDataIn(uploaded, sheet)[1])
availableColumns == availableColumnsIn(rendered.data, rendered.sheet)

(* The effect that sets the default sheet, after a render that read this
   workbook and sheet selection: the selection set so far, or the one the
   effect sets. *)
SheetAfterEffectIn(uploaded, shown, sheet) ==
  IF Len(sheetsOf(uploaded)) > 0 /\ Len(shown) = 0 THEN sheetsOf(uploaded)[1] ELSE sheet

(* The effect that sets the default selected columns, after a render that
   read this workbook, sheet selection and selected columns. *)
ColumnsAfterEffectIn(uploaded, sheet, shown, columns) ==
  IF Len(availableColumnsIn(uploaded, sheet)) > 0 /\ Len(shown) = 0
  THEN slice(availableColumnsIn(uploaded, sheet), 0, 10)
  ELSE columns

(* Whether [availableColumns, selectedColumns.length] differ between two
   renders: the availableColumns memo is computed anew when uploadedData or
   the sheet selection is another. *)
columnsEffectDue(prev, new, dataChanged) ==
  dataChanged \/ prev.sheet # new.sheet \/ Len(prev.columns) # Len(new.columns)

(* processDashboardData on the view's workbook and sheet selection *)
processDashboardDataIn(uploaded, sheet) ==
  IF uploaded.null \/ Len(sheet) = 0 \/ ~HasKey(uploaded.obj, sheet)
  THEN NoDashboardData
  ELSE IF Len(ObjGet(uploaded.obj, sheet)) = 0
  THEN NoDashboardData
  ELSE [null |-> FALSE, value |-> processDashboardData(ObjGet(uploaded.obj, sheet))]

(* One run of the dashboard's effect on [uploadedData, selectedSheet]
   after a render that read this workbook and the sheet selection shown:
   the sheet selection set so far or the one the effect sets, and the
   dashboardData processDashboardData sets from the render's own sheet
   selection. *)
dashboardEffectMutant(uploaded, shown, sheet, data) ==
  IF uploaded.null \/ ~data.null THEN [sheet |-> sheet, data |-> data]
  ELSE [sheet |-> SheetAfterEffectIn(uploaded, shown, sheet),
        data |-> processDashboardDataIn(uploaded, shown)]
dashboardEffect(uploaded, shown, sheet, data) ==
  IF uploaded.null THEN [sheet |-> sheet, data |-> data]
  ELSE [sheet |-> SheetAfterEffectIn(uploaded, shown, sheet),
        data |-> processDashboardDataIn(uploaded, shown)]

(* The effects due after a render that read `new`, the render before
   having read `prev`: the data table's default-sheet effect has the
   sheets array, new in every render, among its dependencies. *)
tableEffectsDue(prev, new, dataChanged) ==
  {"sheet"} \cup (IF columnsEffectDue(prev, new, dataChanged) THEN {"columns"} ELSE {})
dashboardEffectsDue(prev, new, dataChanged) ==
  IF dataChanged \/ prev.sheet # new.sheet THEN {"data"} ELSE {}

(* The effects `due` of the render that read `shown`, run on the values set
   so far. *)
tableEffects(shown, due, sheet, columns) ==
  [sheet |-> IF "sheet" \in due
             THEN SheetAfterEffectIn(shown.data, shown.sheet, sheet) ELSE sheet,
   columns |-> IF "columns" \in due
               THEN ColumnsAfterEffectIn(shown.data, shown.sheet, shown.columns, columns)
               ELSE columns,
   queued |-> /\ "columns" \in due
              /\ Len(availableColumnsIn(shown.data, shown.sheet)) > 0
              /\ Len(shown.columns) = 0]
dashboardEffects(shown, due, sheet, data) ==
  IF "data" \in due THEN dashboardEffect(shown.data, shown.sheet, sheet, data)
  ELSE [sheet |-> sheet, data |-> data]

(* What a render of everything set so far reads, with its effects run; and
   whether something was set since the last render or effects of it are
   due. *)
RenderInput ==
  [data |-> uploadedData, fresh |-> TRUE,
   sheet |-> IF activeTab = "data-table" THEN selectedSheet ELSE dashboardSheet,
   columns |-> selectedColumns, key |-> refreshKey, due |-> {},
   queued |-> FALSE, stale |-> FALSE]
renderPending == rendered # RenderInput

(* The cleanup of the auto-refresh effect: the intervals still scheduled
   when the run it cleans up had autoRefresh = enabled. *)
clearIntervalMutant(scheduled, enabled) == scheduled
clearInterval(scheduled, enabled) == IF enabled THEN scheduled - 1 ELSE scheduled

(* The auto-refresh effect on a change of autoRefresh: the cleanup of its
   last run, then setInterval when enabled. *)
autoRefreshEffect(scheduled, wasEnabled, enabled) ==
  clearInterval(scheduled, wasEnabled) + (IF enabled THEN 1 ELSE 0)

(* A view is mounted by the render of the tab click, which reads the
   workbook App showed last; it has its initial state, and its effects run
   after that render. *)
MountTable ==
  /\ selectedSheet' = SheetAfterEffectIn(rendered.data, <<>>, <<>>)
  /\ selectedColumns' = ColumnsAfterEffectIn(rendered.data, <<>>, <<>>, <<>>)
  /\ searchTerm' = <<>> /\ rowsPerPage' = 100 /\ currentPage' = 1
  /\ sortConfig' = NoSort
MountDashboard ==
  /\ dashboardSheet' = dashboardEffect(rendered.data, <<>>, <<>>, NoDashboardData).sheet
  /\ dashboardData' = dashboardEffect(rendered.data, <<>>, <<>>, NoDashboardData).data
  /\ refreshKey' = 0 /\ autoRefresh' = FALSE
  /\ intervals' = clearInterval(intervals, autoRefresh)

(* A view is unmounted: the cleanups of its effects run and its state is
   gone. *)
UnmountTable ==
  /\ selectedSheet' = <<>> /\ searchTerm' = <<>> /\ rowsPerPage' = 100
  /\ currentPage' = 1 /\ sortConfig' = NoSort /\ selectedColumns' = <<>>
UnmountDashboard ==
  /\ dashboardSheet' = <<>> /\ dashboardData' = NoDashboardData
  /\ refreshKey' = 0 /\ autoRefresh' = FALSE
  /\ intervals' = clearInterval(intervals, autoRefresh)

Init ==
  /\ PureIdle /\ TableIdle
  /\ uploadedData = NullData /\ isSampleData = FALSE
  /\ activeTab = "upload" /\ sampleFetch = "pending"
  /\ isProcessing = FALSE /\ error = "null" /\ fileInfo = NoFileInfo
  /\ reads = <<>> /\ lastEvent = NoEvent

(* handleFileSelect, and processExcelFile up to reader.readAsArrayBuffer *)
HandleFileSelect(file) ==
  /\ activeTab = "upload"
  /\ Len(reads) < MaxReads
  /\ IF file.valid
     THEN /\ isProcessing' = TRUE
          /\ error' = "null"
          /\ reads' = Append(reads, [file |-> file, mounted |-> TRUE])
     ELSE /\ error' = "Please select a valid Excel file (.xlsx or .xls)"
          /\ UNCHANGED <<isProcessing, reads>>
  /\ lastEvent' = [op |-> "handleFileSelect", file |-> file]
  /\ UNCHANGED <<fileInfo, appVars, pureVars, tableVars, dashVars>>

RemoveAt(seq, i) == SubSeq(seq, 1, i - 1) \o SubSeq(seq, i + 1, Len(seq))

(* reader.onload of the i-th read in flight, delivering the content: the
   try block, or its catch.
   The state setters of an upload view that was unmounted since do
   nothing; onDataUpload is App's and acts in any case.  The callback sets
   state, which is rendered by a later Render. *)
ReaderOnLoadMutant(i, content) ==
  /\ i \in 1..Len(reads)
  /\ LET file == reads[i].file
         done == ProcessSheetsFrom(content.book, 1, [processedData |-> <<>>, totalRecords |-> 0])
     IN /\ uploadedData' = Data(done.processedData)
        /\ isSampleData' = FALSE
        /\ IF reads[i].mounted
           THEN /\ isProcessing' = FALSE
                /\ IF DecodeThrows(content)
                   THEN error' = "Error processing file" /\ UNCHANGED fileInfo
                   ELSE fileInfo' = [set |-> TRUE, name |-> file.name,
                                     sheets |-> Len(done.processedData),
                                     records |-> done.totalRecords]
                        /\ UNCHANGED error
           ELSE UNCHANGED <<isProcessing, error, fileInfo>>
        /\ rendered' = [rendered EXCEPT !.fresh = FALSE]
        /\ lastEvent' = [op |-> "reader.onload", file |-> file, content |-> content]
  /\ reads' = RemoveAt(reads, i)
  /\ UNCHANGED <<activeTab, sampleFetch, pureVars, tableVars, dashState>>
ReaderOnLoad(i, content) ==
  /\ i \in 1..Len(reads)
  /\ LET file == reads[i].file
         done == ProcessSheets(content.book)
     IN /\ IF DecodeThrows(content)
           THEN /\ UNCHANGED <<uploadedData, isSampleData, fileInfo, rendered>>
                /\ IF reads[i].mounted
                   THEN error' = "Error processing file" /\ isProcessing' = FALSE
                   ELSE UNCHANGED <<error, isProcessing>>
           ELSE /\ uploadedData' = Data(done.processedData)
                /\ isSampleData' = FALSE
                /\ IF reads[i].mounted
                   THEN /\ fileInfo' = [set |-> TRUE, name |-> file.name,
                                        sheets |-> Len(done.processedData),
                                        records |-> done.totalRecords]
                        /\ isProcessing' = FALSE
                   ELSE UNCHANGED <<fileInfo, isProcessing>>
                /\ rendered' = [rendered EXCEPT !.fresh = FALSE]
                /\ UNCHANGED error
        /\ lastEvent' = [op |-> "reader.onload", file |-> file, content |-> content]
  /\ reads' = RemoveAt(reads, i)
  /\ UNCHANGED <<activeTab, sampleFetch, pureVars, tableVars, dashState>>

(* reader.onerror of the i-th read in flight *)
ReaderOnError(i) ==
  /\ i \in 1..Len(reads)
  /\ IF reads[i].mounted
     THEN error' = "Error reading file" /\ isProcessing' = FALSE
     ELSE UNCHANGED <<error, isProcessing>>
  /\ lastEvent' = [op |-> "reader.onerror", file |-> reads[i].file]
  /\ reads' = RemoveAt(reads, i)
  /\ UNCHANGED <<fileInfo, appVars, pureVars, tableVars, dashVars>>

(* The tab buttons: setActiveTab, the render of the click, which mounts
   the tab's view with the workbook App showed last, and the effects after
   that render; a workbook set since and what the effects set are rendered
   by a later Render.  Leaving the upload tab unmounts the upload view,
   whose state starts afresh when it is mounted again. *)
SetActiveTab(tab) ==
  /\ tab # activeTab
  /\ activeTab' = tab
  /\ IF activeTab = "upload"
     THEN /\ isProcessing' = FALSE /\ error' = "null" /\ fileInfo' = NoFileInfo
          /\ reads' = [i \in 1..Len(reads) |-> [reads[i] EXCEPT !.mounted = FALSE]]
     ELSE UNCHANGED <<isProcessing, error, fileInfo, reads>>
  /\ UNCHANGED <<uploadedData, isSampleData, sampleFetch, pureVars>>
  /\ IF tab = "data-table" THEN MountTable ELSE UnmountTable
  /\ IF tab = "dashboard" THEN MountDashboard ELSE UnmountDashboard
  /\ rendered' = [Unrendered EXCEPT !.data = rendered.data, !.fresh = rendered.fresh]
  /\ lastEvent' = [op |-> "setActiveTab"]

(* initializeData after `await loadSampleData()`: the fetch was started on
   mount, when uploadedData was null.  The state it sets is rendered by a
   later Render. *)
SampleFetchResolves(ok) ==
  /\ sampleFetch = "pending"
  /\ sampleFetch' = "done"
  /\ IF ok
     THEN /\ uploadedData' = Data(loadSampleData) /\ isSampleData' = TRUE
          /\ rendered' = [rendered EXCEPT !.fresh = FALSE]
     ELSE UNCHANGED <<uploadedData, isSampleData, rendered>>
  /\ lastEvent' = [op |-> "initializeData"]
  /\ UNCHANGED <<activeTab, isProcessing, error, fileInfo, reads, pureVars, tableVars,
                 dashState>>

(* A render of everything set since the last render.  Its effects are due
   and run as a task of their own: the data table's default-sheet effect
   after every render and its default-columns effect when its dependencies
   differ from those of the render before; the dashboard's data effect when
   uploadedData or the sheet selection differ from those of the render
   before.  When the queue gives the very state rendered (an update was
   queued, and a click has set the array rendered since) the view is not
   rendered again and no effect is due. *)
Render ==
  /\ rendered.due = {} /\ renderPending
  /\ rendered' =
       [RenderInput EXCEPT !.due =
          IF [rendered EXCEPT !.queued = FALSE] = RenderInput THEN {}
          ELSE IF activeTab = "data-table"
          THEN tableEffectsDue(rendered, RenderInput, ~rendered.fresh)
          ELSE IF activeTab = "dashboard"
          THEN dashboardEffectsDue(rendered, RenderInput, ~rendered.fresh)
          ELSE {}]
  /\ lastEvent' = [op |-> "render"]
  /\ UNCHANGED <<dashState, tableVars, isProcessing, error, fileInfo, reads, appVars,
                 pureVars>>

(* The effects of the last Render, with the values it read. *)
RunEffects ==
  /\ rendered.due # {}
  /\ selectedSheet' =
       tableEffects(rendered, rendered.due, selectedSheet, selectedColumns).sheet
  /\ selectedColumns' =
       tableEffects(rendered, rendered.due, selectedSheet, selectedColumns).columns
  /\ dashboardSheet' =
       dashboardEffects(rendered, rendered.due, dashboardSheet, dashboardData).sheet
  /\ dashboardData' =
       dashboardEffects(rendered, rendered.due, dashboardSheet, dashboardData).data
  /\ rendered' =
       LET set == tableEffects(rendered, rendered.due, selectedSheet, selectedColumns).queued
       IN [rendered EXCEPT !.due = {}, !.queued = @ \/ set, !.stale = @ \/ set]
  /\ lastEvent' = [op |-> "effects",
                   processed |-> "data" \in rendered.due /\ ~rendered.data.null]
  /\ UNCHANGED <<searchTerm, rowsPerPage, currentPage, sortConfig, refreshKey, autoRefresh,
                 intervals, isProcessing, error, fileInfo, reads, appVars, pureVars>>

(* The render of a click in the dashboard, which reads `new`: the effects
   still due run first, on the sheet selection set so far, the click's
   included; then the render, and the data effect after it. *)
DashboardRendered(new, sheet) ==
  LET waited == dashboardEffects(rendered, rendered.due, sheet, dashboardData)
      after == dashboardEffects(new, dashboardEffectsDue(rendered, new, FALSE),
                                waited.sheet, waited.data)
  IN /\ rendered' = [new EXCEPT !.due = {}]
     /\ dashboardSheet' = after.sheet
     /\ dashboardData' = after.data

(* the dashboard's sheet select, offered the sheets the view shows *)
DashboardSheetChange(sheet) ==
  /\ activeTab = "dashboard"
  /\ InSeq(sheet, sheets) /\ sheet # rendered.sheet
  /\ DashboardRendered([rendered EXCEPT !.sheet = sheet], sheet)
  /\ lastEvent' = [op |-> "dashboardSheetChange", processed |-> TRUE]
  /\ UNCHANGED <<refreshKey, autoRefresh, intervals, isProcessing, error, fileInfo, reads,
                 appVars, pureVars, tableVars>>

(* the auto-refresh checkbox, shown once the view shows a workbook, and the
   auto-refresh effect after the render of the click *)
ToggleAutoRefresh ==
  /\ activeTab = "dashboard" /\ ~rendered.data.null
  /\ autoRefresh' = ~autoRefresh
  /\ intervals' = autoRefreshEffect(intervals, autoRefresh, ~autoRefresh)
  /\ DashboardRendered(rendered, dashboardSheet)
  /\ lastEvent' = [op |-> "setAutoRefresh", processed |-> FALSE]
  /\ UNCHANGED <<refreshKey, isProcessing, error,
                 fileInfo, reads, appVars, pureVars, tableVars>>

(* a tick of a scheduled interval: setRefreshKey, a state setter of the
   dashboard that scheduled it; the view is rendered with the new key by a
   later Render. *)
IntervalTick ==
  /\ intervals > 0 /\ refreshKey < MaxRefreshKey
  /\ refreshKey' = (IF activeTab = "dashboard" THEN refreshKey + 1 ELSE refreshKey)
  /\ lastEvent' = [op |-> "tick"]
  /\ UNCHANGED <<dashboardSheet, dashboardData, autoRefresh, intervals, rendered,
                 isProcessing, error, fileInfo, reads, appVars, pureVars, tableVars>>

(* the Refresh Data button: setRefreshKey, and the render of the click,
   after which no effect runs *)
RefreshClick ==
  /\ activeTab = "dashboard" /\ ~rendered.data.null
  /\ refreshKey < MaxRefreshKey
  /\ refreshKey' = refreshKey + 1
  /\ DashboardRendered([rendered EXCEPT !.key = rendered.key + 1], dashboardSheet)
  /\ lastEvent' = [op |-> "refreshClick", processed |-> FALSE]
  /\ UNCHANGED <<autoRefresh, intervals, isProcessing,
                 error, fileInfo, reads, appVars, pureVars, tableVars>>

(* The step is the end of a read that failed: onerror, or an onload whose
   decoding threw. *)
FailedReadStep ==
  \/ lastEvent'.op = "reader.onerror"
  \/ lastEvent'.op = "reader.onload" /\ DecodeThrows(lastEvent'.content)
ReadEndStep == lastEvent'.op \in {"reader.onerror", "reader.onload"} /\ reads' # reads

(* C1: a failed read or decode does not call onDataUpload and leaves the
   workbook as it was; only the error message and isProcessing change. *)
C1_FailedDecodeKeepsWorkbook ==
  [][(ReadEndStep /\ FailedReadStep) =>
       /\ uploadedData' = uploadedData /\ isSampleData' = isSampleData
       /\ fileInfo' = fileInfo /\ activeTab' = activeTab
       /\ sampleFetch' = sampleFetch
       /\ UNCHANGED <<pureVars, tableVars, dashVars>>]_vars

(* A decode that threw at its second sheet, with the workbook uploaded
   before still in place and the error shown. *)
C1_Witness ==
  /\ lastEvent.op = "reader.onload" /\ lastEvent.content.throwsAt = 2
  /\ error = "Error processing file" /\ ~isProcessing
  /\ ~uploadedData.null /\ ~isSampleData
  /\ ObjectKeys(uploadedData.obj) = <<NameT>>

----------------------------------------------------------------------------
(* The data table's handlers, each with the render of its click and the
   effects after that render (Spec and SpecTable). *)

tableSorted == sortedData(filteredData(currentData, searchTerm), sortConfig)
tablePage == paginatedData(tableSorted, currentPage, rowsPerPage)

(* The search terms and page sizes tried in SpecTable and in Spec. *)
TableTerms == {<<>>, <<"1">>}
TableRowsPerPage == {50, 100}
SpecTerms == {<<"a">>}
SpecRowsPerPage == {50}

(* The render of a click in the data table, which reads `new`: the effects
   still due run first, on the values set so far (sheet and columns, the
   click's included); then the render, and the effects after it.  What
   the columns effect sets joins the queue behind the click's update, so
   the array the queue gives is then the effect's, not the one rendered. *)
TableRendered(new, sheet, columns) ==
  \E read \in {new}, waited \in {tableEffects(rendered, rendered.due, sheet, columns)} :
    \E after \in {tableEffects(read, tableEffectsDue(rendered, read, FALSE),
                                waited.sheet, waited.columns)} :
      /\ rendered' = [read EXCEPT !.due = {},
                                  !.queued = @ \/ waited.queued \/ after.queued,
                                  !.stale = @ \/ waited.queued \/ after.queued]
      /\ selectedSheet' = after.sheet
      /\ selectedColumns' = after.columns

(* the updater of handleSort *)
handleSortMutant(prev, column) ==
  [key |-> Str(column), direction |-> IF prev.key = Str(column) THEN "desc" ELSE "asc"]
handleSort(prev, column) ==
  [key |-> Str(column),
   direction |-> IF prev.key = Str(column) /\ prev.direction = "asc" THEN "desc"
                 ELSE "asc"]

(* a click on the header of a shown column *)
HandleSort(column) ==
  /\ activeTab = "data-table" /\ ~rendered.data.null
  /\ InSeq(column, rendered.columns) /\ Len(tablePage) > 0
  /\ sortConfig' = handleSort(sortConfig, column)
  /\ TableRendered(rendered, selectedSheet, selectedColumns)
  /\ lastEvent' = [op |-> "handleSort", column |-> column,
                   replaced |-> Truthy(sortConfig.key) /\ sortConfig.key # Str(column)]
  /\ UNCHANGED <<searchTerm, rowsPerPage, currentPage,
                 isProcessing, error, fileInfo, reads, appVars, pureVars, dashState>>

(* the search input's onChange *)
SearchChangeMutant(term) ==
  /\ activeTab = "data-table" /\ ~rendered.data.null
  /\ term # searchTerm
  /\ searchTerm' = term
  /\ TableRendered(rendered, selectedSheet, selectedColumns)
  /\ lastEvent' = [op |-> "searchChange", page |-> currentPage]
  /\ UNCHANGED <<rowsPerPage, sortConfig, currentPage,
                 isProcessing, error, fileInfo, reads, appVars, pureVars, dashState>>
SearchChange(term) ==
  /\ activeTab = "data-table" /\ ~rendered.data.null
  /\ term # searchTerm
  /\ searchTerm' = term
  /\ currentPage' = 1
  /\ TableRendered(rendered, selectedSheet, selectedColumns)
  /\ lastEvent' = [op |-> "searchChange", page |-> currentPage]
  /\ UNCHANGED <<rowsPerPage, sortConfig,
                 isProcessing, error, fileInfo, reads, appVars, pureVars, dashState>>

(* the sheet select's onChange, offered the sheets the view shows *)
SheetChange(sheet) ==
  /\ activeTab = "data-table"
  /\ InSeq(sheet, sheets) /\ sheet # rendered.sheet
  /\ currentPage' = 1
  /\ searchTerm' = <<>>
  /\ TableRendered([rendered EXCEPT !.sheet = sheet, !.columns = <<>>, !.stale = FALSE],
                   sheet, <<>>)
  /\ lastEvent' = [op |-> "sheetChange", page |-> currentPage]
  /\ UNCHANGED <<rowsPerPage, sortConfig,
                 isProcessing, error, fileInfo, reads, appVars, pureVars, dashState>>

(* the rows-per-page select's onChange *)
RowsPerPageChange(rows) ==
  /\ activeTab = "data-table" /\ ~rendered.data.null
  /\ rows # rowsPerPage
  /\ rowsPerPage' = rows
  /\ currentPage' = 1
  /\ TableRendered(rendered, selectedSheet, selectedColumns)
  /\ lastEvent' = [op |-> "rowsPerPageChange"]
  /\ UNCHANGED <<searchTerm, sortConfig,
                 isProcessing, error, fileInfo, reads, appVars, pureVars, dashState>>

(* the updater of handleColumnToggle *)
handleColumnToggle(prev, column) ==
  IF InSeq(column, prev)
  THEN SelectSeq(prev, LAMBDA col : col # column)
  ELSE Append(prev, column)

(* the checkbox of a column the view shows: the render of the click applies
   the updater to the columns shown, a later Render to the columns set so
   far, which gives a new array when an update waits in the queue *)
HandleColumnToggle(column) ==
  /\ activeTab = "data-table"
  /\ InSeq(column, availableColumns)
  /\ TableRendered([rendered EXCEPT !.columns = handleColumnToggle(rendered.columns, column),
                                    !.stale = rendered.queued],
                   selectedSheet, handleColumnToggle(selectedColumns, column))
  /\ lastEvent' = [op |-> "handleColumnToggle", column |-> column]
  /\ UNCHANGED <<searchTerm, rowsPerPage, currentPage, sortConfig,
                 isProcessing, error, fileInfo, reads, appVars, pureVars, dashState>>

(* Select All *)
SelectAllColumns ==
  /\ activeTab = "data-table"
  /\ Len(availableColumns) > 0
  /\ TableRendered([rendered EXCEPT !.columns = availableColumns, !.stale = FALSE],
                   selectedSheet, availableColumns)
  /\ lastEvent' = [op |-> "selectAll"]
  /\ UNCHANGED <<searchTerm, rowsPerPage, currentPage, sortConfig,
                 isProcessing, error, fileInfo, reads, appVars, pureVars, dashState>>

(* Clear All *)
ClearAllColumns ==
  /\ activeTab = "data-table"
  /\ Len(availableColumns) > 0
  /\ TableRendered([rendered EXCEPT !.columns = <<>>, !.stale = FALSE], selectedSheet, <<>>)
  /\ lastEvent' = [op |-> "clearAll"]
  /\ UNCHANGED <<searchTerm, rowsPerPage, currentPage, sortConfig,
                 isProcessing, error, fileInfo, reads, appVars, pureVars, dashState>>

(* the Previous button, shown with the table when there is more than one
   page and enabled off the first page *)
PreviousPage ==
  /\ activeTab = "data-table"
  /\ currentPage # 1
  /\ Len(rendered.columns) > 0 /\ Len(tablePage) > 0
  /\ totalPages(tableSorted, rowsPerPage) > 1
  /\ currentPage' = (IF currentPage - 1 > 1 THEN currentPage - 1 ELSE 1)
  /\ TableRendered(rendered, selectedSheet, selectedColumns)
  /\ lastEvent' = [op |-> "previousPage"]
  /\ UNCHANGED <<searchTerm, rowsPerPage, sortConfig,
                 isProcessing, error, fileInfo, reads, appVars, pureVars, dashState>>

(* the Next button, enabled off the last page *)
NextPage ==
  /\ activeTab = "data-table"
  /\ Len(rendered.columns) > 0 /\ Len(tablePage) > 0
  /\ \E pages \in {totalPages(tableSorted, rowsPerPage)} :
       /\ pages > 1
       /\ currentPage # pages
       /\ currentPage' = (IF currentPage + 1 < pages THEN currentPage + 1 ELSE pages)
  /\ TableRendered(rendered, selectedSheet, selectedColumns)
  /\ lastEvent' = [op |-> "nextPage"]
  /\ UNCHANGED <<searchTerm, rowsPerPage, sortConfig,
                 isProcessing, error, fileInfo, reads, appVars, pureVars, dashState>>

(* Spec: App with its three views, the file reads, the sample fetch and
   the renders. *)
Next ==
  \/ \E file \in Files : HandleFileSelect(file)
  \/ \E i \in 1..MaxReads, content \in Contents : ReaderOnLoad(i, content)
  \/ \E i \in 1..MaxReads : ReaderOnError(i)
  \/ \E tab \in {"upload", "dashboard", "data-table"} : SetActiveTab(tab)
  \/ \E ok \in BOOLEAN : SampleFetchResolves(ok)
  \/ Render
  \/ RunEffects
  \/ \E sheet \in {NameS1, NameS2, NameT} : DashboardSheetChange(sheet)
  \/ ToggleAutoRefresh
  \/ IntervalTick
  \/ RefreshClick
  \/ \E column \in {<<"A">>, <<"B">>} : HandleSort(column)
  \/ \E term \in SpecTerms : SearchChange(term)
  \/ \E sheet \in {NameS1, NameS2, NameT} : SheetChange(sheet)
  \/ \E rows \in SpecRowsPerPage : RowsPerPageChange(rows)
  \/ \E column \in {<<"A">>, <<"B">>} : HandleColumnToggle(column)
  \/ SelectAllColumns
  \/ ClearAllColumns
Spec == Init /\ [][Next]_vars

----------------------------------------------------------------------------
(* SpecTable: the data table view on an uploaded workbook with a sheet of
   more than one page. *)

(* The workbook shown: the two sheets of BookOne and a third that fills
   more than one page of 50. *)
NameS3 == <<"S", "3">>
SheetS3(maxRows) ==
  <<<<ColA>>>> \o [i \in 1..maxRows |-> <<Str(NatToString(i % 7))>>]
TableBook(maxRows) == BookOne \o <<[name |-> NameS3, json |-> SheetS3(maxRows)]>>

(* The table was mounted on the workbook; its renders and effects are
   done. *)
InitTable ==
  /\ PureIdle /\ UploadIdle
  /\ uploadedData = Data(ProcessSheets(TableBook(MaxTableRows)).processedData)
  /\ isSampleData = FALSE /\ activeTab = "data-table" /\ sampleFetch = "done"
  /\ selectedSheet = NameS1
  /\ selectedColumns = slice(availableColumnsIn(uploadedData, NameS1), 0, 10)
  /\ searchTerm = <<>> /\ rowsPerPage = 100 /\ currentPage = 1
  /\ sortConfig = NoSort
  /\ dashboardSheet = <<>> /\ dashboardData = NoDashboardData
  /\ refreshKey = 0 /\ autoRefresh = FALSE /\ intervals = 0
  /\ rendered = [data |-> uploadedData, fresh |-> TRUE, sheet |-> selectedSheet,
                 columns |-> selectedColumns, key |-> 0, due |-> {},
                 queued |-> FALSE, stale |-> FALSE]

(* A second workbook: the third sheet alone, with less than a page. *)
ShortBook(maxRows) == <<[name |-> NameS3, json |-> SheetS3(maxRows)]>>

(* handleDataUpload while the table is shown (a read started in the upload
   view delivers its workbook, which may be the one installed, read
   again); the table is rendered with it by a later Render. *)
WorkbookReplaced(book) ==
  /\ uploadedData' = Data(ProcessSheets(book).processedData)
  /\ isSampleData' = FALSE
  /\ rendered' = [rendered EXCEPT !.fresh = FALSE]
  /\ lastEvent' = [op |-> "handleDataUpload"]
  /\ UNCHANGED <<activeTab, sampleFetch, isProcessing, error, fileInfo, reads, pureVars,
                 tableVars, dashState>>

NextTable ==
  \/ \E column \in {<<"A">>, <<"B">>} : HandleSort(column)
  \/ \E term \in TableTerms : SearchChange(term)
  \/ \E sheet \in {NameS1, NameS2, NameS3} : SheetChange(sheet)
  \/ \E rows \in TableRowsPerPage : RowsPerPageChange(rows)
  \/ \E column \in {<<"A">>, <<"B">>} : HandleColumnToggle(column)
  \/ SelectAllColumns
  \/ ClearAllColumns
  \/ PreviousPage
  \/ NextPage
  \/ \E book \in {TableBook(MaxTableRows), ShortBook(MaxShortRows)} : WorkbookReplaced(book)
  \/ Render
  \/ RunEffects
SpecTable == InitTable /\ [][NextTable]_vars

(* C9: a header click leaves exactly one sort key, the clicked column:
   ascending when the column was not the key, and the other direction when
   it was. *)
C9_HeaderClickSetsOneKey ==
  [][lastEvent'.op = "handleSort" =>
       /\ sortConfig'.key = Str(lastEvent'.column)
       /\ sortConfig'.direction =
            IF sortConfig.key # Str(lastEvent'.column) THEN "asc"
            ELSE IF sortConfig.direction = "asc" THEN "desc" ELSE "asc"]_vars

(* A click on column B of the first sheet while column A was the key,
   descending after two clicks on it: B is the one key, ascending. *)
C9_Witness ==
  /\ lastEvent.op = "handleSort" /\ lastEvent.column = <<"B">> /\ lastEvent.replaced
  /\ sortConfig = [key |-> ColB, direction |-> "asc"]
  /\ rendered.sheet = NameS1

(* What evaluating the sortedData memo ends in.  The comparator reads
   a[sortConfig.key] of a record, which is undefined for a key the record
   lacks and then compares as ''; nothing in the memo throws. *)
sortOutcome(filtered, cfg) == [threw |-> FALSE, value |-> sortedData(filtered, cfg)]

(* The sort key is set and is no column of the shown sheet's records. *)
SortKeyUnknown ==
  /\ Truthy(sortConfig.key)
  /\ Len(currentData) > 0
  /\ ~InSeq(sortConfig.key.s, availableColumns)

(* C17: sort invoked with a column name that is not a column of the records
   fails with an "unknown column" error instead of returning a result. *)
C17_UnknownColumnFails ==
  SortKeyUnknown =>
    sortOutcome(filteredData(currentData, searchTerm), sortConfig).threw

(* C11: every change of the search term and every change of the sheet
   selection sets the current page to 1 in the same step. *)
C11_SearchAndSheetChangeResetPage ==
  [][(searchTerm' # searchTerm \/ selectedSheet' # selectedSheet)
       => currentPage' = 1]_vars

(* A search typed, and a sheet chosen, while page 2 was shown. *)
C11_Witness ==
  /\ lastEvent.op \in {"searchChange", "sheetChange"}
  /\ lastEvent.page = 2
  /\ currentPage = 1

----------------------------------------------------------------------------
(* SpecExport: downloadCSV on the table's sorted records and selected
   columns. *)

(* Array.prototype.join on strings *)
RECURSIVE join(_, _)
join(parts, sep) ==
  IF Len(parts) = 0 THEN <<>>
  ELSE IF Len(parts) = 1 THEN parts[1]
  ELSE parts[1] \o sep \o join(Tail(parts), sep)

(* String.prototype.replace(/"/g, '""') *)
RECURSIVE replaceQuotes(_)
replaceQuotes(s) ==
  IF Len(s) = 0 THEN <<>>
  ELSE (IF Head(s) = "\"" THEN <<"\"", "\"">> ELSE <<Head(s)>>) \o replaceQuotes(Tail(s))

(* one field of a row of downloadCSV, as join renders it *)
csvField(row, col) ==
  LET value == OrElse(ObjGet(row, col), EmptyString)
  IN IF includes(toString(value), <<",">>) \/ includes(toString(value), <<"\"">>)
     THEN <<"\"">> \o replaceQuotes(toString(value)) \o <<"\"">>
     ELSE toString(value)

(* downloadCSV: the text put in the Blob, no text when nothing is shown *)
NoDownload == [made |-> FALSE, csv |-> <<>>]
downloadCSV(sorted, columns) ==
  IF Len(sorted) = 0 \/ Len(columns) = 0 THEN NoDownload
  ELSE LET headers == join(columns, <<",">>)
           rows == join([k \in 1..Len(sorted) |->
                           join([c \in 1..Len(columns) |-> csvField(sorted[k], columns[c])],
                                <<",">>)],
                        <<"\n">>)
       IN [made |-> TRUE, csv |-> headers \o <<"\n">> \o rows]

ExportCellsA ==
  {Undefined, A, Num(5), Str(<<",">>), Str(<<"\"">>), Str(<<"a", ",", "\"", "b", "\"">>),
   Str(<<"x", "\n", "y">>)}
ExportCellsB == {Undefined, Str(<<"b">>)}
ExportRows == {<<a, b>> : a \in ExportCellsA, b \in ExportCellsB}
ExportSheets(maxRows) ==
  {<<<<ColA, ColB>>>> \o rows : rows \in SeqsUpTo(ExportRows, maxRows)}
ExportColumns ==
  {<<>>, <<<<"A">>>>, <<<<"B">>>>, <<<<"A">>, <<"B">>>>, <<<<"B">>, <<"A">>>>,
   <<<<"c", "o", "n", "s", "t", "r", "u", "c", "t", "o", "r">>>>}
ExportCalls(maxRows) ==
  {[fn |-> "downloadCSV", data |-> NormalizeUploadSheet(sh), term |-> t, cfg |-> c,
    columns |-> cols] :
     sh \in ExportSheets(maxRows), t \in {<<>>, <<"b">>},
     c \in {NoSort, [key |-> ColB, direction |-> "desc"]}, cols \in ExportColumns}

InitExport ==
  /\ pc = "ready" /\ call \in ExportCalls(MaxExportRows) /\ ret = <<>>
  /\ AppIdle /\ UploadIdle /\ TableIdle

RunExport ==
  /\ pc = "ready" /\ call.fn = "downloadCSV"
  /\ ret' = [sorted |-> sortedData(filteredData(call.data, call.term), call.cfg),
             file |-> downloadCSV(sortedData(filteredData(call.data, call.term), call.cfg),
                                  call.columns)]
  /\ pc' = "done"
  /\ UNCHANGED <<call, appVars, uploadVars, tableVars, dashVars>>

NextExport == RunExport
SpecExport == InitExport /\ [][NextExport]_vars

Exported == pc = "done" /\ call.fn = "downloadCSV" /\ ret.file.made

(* The text split on the delimiter and the line break, honouring double
   quotes: a quoted field runs to its closing quote, a doubled quote inside
   it is one quote.  state: "start" of a field, "plain", "quoted", or
   "closing" after a quote met inside a quoted field. *)
RECURSIVE SplitQuoted(_, _, _, _, _)
SplitQuoted(text, state, field, line, lines) ==
  IF Len(text) = 0 THEN Append(lines, Append(line, field))
  ELSE LET c == Head(text)
           rest == Tail(text)
       IN IF state = "quoted"
          THEN IF c = "\"" THEN SplitQuoted(rest, "closing", field, line, lines)
               ELSE SplitQuoted(rest, "quoted", Append(field, c), line, lines)
          ELSE IF c = "\"" /\ state = "closing"
               THEN SplitQuoted(rest, "quoted", Append(field, c), line, lines)
          ELSE IF c = "\"" /\ state = "start"
               THEN SplitQuoted(rest, "quoted", field, line, lines)
          ELSE IF c = ","
               THEN SplitQuoted(rest, "start", <<>>, Append(line, field), lines)
          ELSE IF c = "\n"
               THEN SplitQuoted(rest, "start", <<>>, <<>>, Append(lines, Append(line, field)))
          ELSE SplitQuoted(rest, "plain", Append(field, c), line, lines)

(* The value of a record at a column as text, the empty string when the
   record has none. *)
ValueText(row, col) == IF HasKey(row, col) THEN toString(ObjGet(row, col)) ELSE <<>>

(* The field the escaping rule gives a value. *)
EscapedText(text) ==
  IF \E i \in 1..Len(text) : text[i] \in {",", "\""}
  THEN <<"\"">> \o replaceQuotes(text) \o <<"\"">>
  ELSE text

(* C12: the exported text, split into lines and fields honouring quotes,
   gives back for every exported record and selected column the original
   value; and every field is its value, wrapped in quotes with the inner
   quotes doubled when it contains the delimiter or a quote (the fields
   are compared first, the split text after). *)
C12_DelimitedTextRoundTrips ==
  Exported =>
    LET lines == SplitQuoted(ret.file.csv, "start", <<>>, <<>>, <<>>)
    IN /\ \A k \in 1..Len(ret.sorted), c \in 1..Len(call.columns) :
            csvField(ret.sorted[k], call.columns[c])
              = EscapedText(ValueText(ret.sorted[k], call.columns[c]))
       /\ Len(lines) = 1 + Len(ret.sorted)
       /\ \A k \in 1..Len(ret.sorted) :
            /\ Len(lines[k + 1]) = Len(call.columns)
            /\ \A c \in 1..Len(call.columns) :
                 lines[k + 1][c] = ValueText(ret.sorted[k], call.columns[c])

(* The text split on the line break alone. *)
RECURSIVE SplitLines(_, _, _)
SplitLines(text, line, lines) ==
  IF Len(text) = 0 THEN Append(lines, line)
  ELSE IF Head(text) = "\n" THEN SplitLines(Tail(text), <<>>, Append(lines, line))
  ELSE SplitLines(Tail(text), Append(line, Head(text)), lines)

(* C13: the exported text is one header line, the selected column names in
   selection order, then exactly one line per record of the search-then-sort
   result, one field per selected column in the same order, a field empty
   only when the value is missing. *)
C13_HeaderThenOneLinePerRecord ==
  Exported =>
    LET lines == SplitLines(ret.file.csv, <<>>, <<>>)
    IN /\ ret.sorted = sortedData(filteredData(call.data, call.term), call.cfg)
       /\ Len(lines) = 1 + Len(ret.sorted)
       /\ lines[1] = join(call.columns, <<",">>)
       /\ \A k \in 1..Len(ret.sorted) :
            lines[k + 1] =
              join([c \in 1..Len(call.columns) |->
                      EscapedText(ValueText(ret.sorted[k], call.columns[c]))], <<",">>)
       /\ \A k \in 1..Len(ret.sorted), c \in 1..Len(call.columns) :
            csvField(ret.sorted[k], call.columns[c]) = <<>>
              => ValueText(ret.sorted[k], call.columns[c]) = <<>>

----------------------------------------------------------------------------
(* SpecAggregate: the dashboard's charts on the dashboardData of a sheet. *)

(* a + b, of integers, strings and objects *)
Plus(a, b) ==
  IF a.t \in {"string", "object"} \/ b.t \in {"string", "object"}
  THEN Str(toString(a) \o toString(b))
  ELSE Num(a.n + b.n)

(* row[column]?.toString().trim() *)
trimmedValue(row, column) ==
  IF ObjGet(row, column).t \in {"undefined", "null"} THEN Undefined
  ELSE Str(Trim(toString(ObjGet(row, column))))

(* data.forEach(row => { ... counts[value] = (counts[value] || 0) + 1 }) *)
RECURSIVE countBy(_, _, _, _)
countBy(data, column, index, counts) ==
  IF index > Len(data) THEN counts
  ELSE LET value == trimmedValue(data[index], column)
       IN countBy(data, column, index + 1,
            IF Truthy(value)
            THEN ObjSet(counts, value.s,
                        Plus(OrElse(ObjGet(counts, value.s), Num(0)), Num(1)))
            ELSE counts)

(* data.forEach(row => { ... grouped[category] = (grouped[category] || 0) + value }) *)
RECURSIVE groupBy(_, _, _, _, _)
groupBy(data, categoricalCol, numericCol, index, grouped) ==
  IF index > Len(data) THEN grouped
  ELSE LET category == trimmedValue(data[index], categoricalCol)
           parsed == parseFloat(ObjGet(data[index], numericCol))
           value == IF parsed.nan THEN Num(0) ELSE Num(parsed.n)
       IN groupBy(data, categoricalCol, numericCol, index + 1,
            IF Truthy(category)
            THEN ObjSet(grouped, category.s,
                        Plus(OrElse(ObjGet(grouped, category.s), Num(0)), value))
            ELSE grouped)

(* ([,a], [,b]) => b - a, as Array.prototype.sort reads it (NaN as 0) *)
entriesCompare(x, y) ==
  IF ToNumber(x.v).nan \/ ToNumber(y.v).nan THEN 0
  ELSE ToNumber(y.v).n - ToNumber(x.v).n

(* Array.prototype.sort on the entries, as ArraySort on the records *)
RECURSIVE EntriesRunLength(_, _, _)
EntriesRunLength(arr, idx, descending) ==
  IF idx > Len(arr) THEN idx - 1
  ELSE LET order == entriesCompare(arr[idx], arr[idx - 1])
       IN IF (descending /\ order >= 0) \/ (~descending /\ order < 0)
          THEN idx - 1
          ELSE EntriesRunLength(arr, idx + 1, descending)

RECURSIVE EntriesInsertionPoint(_, _, _, _)
EntriesInsertionPoint(arr, pivot, left, right) ==
  IF left >= right THEN left
  ELSE LET mid == left + ((right - left) \div 2)
       IN IF entriesCompare(pivot, arr[mid]) < 0
          THEN EntriesInsertionPoint(arr, pivot, left, mid)
          ELSE EntriesInsertionPoint(arr, pivot, mid + 1, right)

RECURSIVE EntriesInsertionSort(_, _)
EntriesInsertionSort(arr, start) ==
  IF start > Len(arr) THEN arr
  ELSE LET at == EntriesInsertionPoint(arr, arr[start], 1, start)
       IN EntriesInsertionSort(
            SubSeq(arr, 1, at - 1) \o <<arr[start]>> \o SubSeq(arr, at, start - 1)
              \o SubSeq(arr, start + 1, Len(arr)),
            start + 1)

EntriesSort(arr) ==
  IF Len(arr) < 2 THEN arr
  ELSE LET descending == entriesCompare(arr[2], arr[1]) < 0
           run == EntriesRunLength(arr, 3, descending)
       IN EntriesInsertionSort(
            IF descending
            THEN Reverse(SubSeq(arr, 1, run)) \o SubSeq(arr, run + 1, Len(arr))
            ELSE arr,
            run + 1)

(* Object.entries(counts).sort(...).slice(0, topN): the chart's labels and
   data, entry by entry *)
topEntries(counts, topN) == slice(EntriesSort(counts), 0, topN)

NoChart == [made |-> FALSE, column |-> <<>>, entries |-> <<>>]
Chart(column, entries) == [made |-> TRUE, column |-> column, entries |-> entries]

(* categoricalColumns.find(col => col.toLowerCase().includes(word) || ...) *)
findColumn(columns, wordSet) ==
  LET hits == SelectSeq(columns,
                LAMBDA col : \E w \in wordSet : includes(toLowerCase(col), w))
  IN IF Len(hits) > 0 THEN Str(hits[1]) ELSE Undefined

(* categoricalColumns[index], for a 0-based index *)
columnAt(columns, index) ==
  IF index < Len(columns) THEN Str(columns[index + 1]) ELSE Undefined

CompetencyWords ==
  {<<"c", "o", "m", "p", "e", "t", "e", "n", "c", "y">>,
   <<"s", "k", "i", "l", "l">>,
   <<"t", "e", "c", "h", "n", "o", "l", "o", "g", "y">>,
   <<"e", "x", "p", "e", "r", "t", "i", "s", "e">>}
PrimarySkillWords ==
  {<<"p", "r", "i", "m", "a", "r", "y">>,
   <<"s", "k", "i", "l", "l">>,
   <<"m", "a", "i", "n">>,
   <<"c", "o", "r", "e">>}

getCompetencyChart(dd) ==
  IF Len(dd.categoricalColumns) = 0 THEN NoChart
  ELSE LET competencyCol ==
             OrElse(findColumn(dd.categoricalColumns, CompetencyWords),
                    columnAt(dd.categoricalColumns, 0))
       IN Chart(toString(competencyCol),
                topEntries(countBy(dd.data, toString(competencyCol), 1, <<>>), 8))

getCategoryChart(dd) ==
  IF Len(dd.categoricalColumns) = 0 THEN NoChart
  ELSE LET column == dd.categoricalColumns[1]
       IN Chart(column, topEntries(countBy(dd.data, column, 1, <<>>), 10))

getPrimarySkillChart(dd) ==
  IF Len(dd.categoricalColumns) = 0 THEN NoChart
  ELSE LET skillCol ==
             OrElse(OrElse(findColumn(dd.categoricalColumns, PrimarySkillWords),
                           columnAt(dd.categoricalColumns, 1)),
                    columnAt(dd.categoricalColumns, 0))
       IN Chart(toString(skillCol),
                topEntries(countBy(dd.data, toString(skillCol), 1, <<>>), 10))

getComparisonChart(dd) ==
  IF Len(dd.numericColumns) = 0 \/ Len(dd.categoricalColumns) = 0 THEN NoChart
  ELSE LET numericCol == dd.numericColumns[1]
           categoricalCol == dd.categoricalColumns[1]
       IN Chart(categoricalCol,
                topEntries(groupBy(dd.data, categoricalCol, numericCol, 1, <<>>), 10))

AggCellsA ==
  {Undefined, Str(<<"x">>), Str(<<" ", "x">>), Str(<<"y">>), Str(<<"7">>),
   Str(<<"c", "o", "n", "s", "t", "r", "u", "c", "t", "o", "r">>)}
AggCellsB == {Undefined, Str(<<"2">>), Str(<<"1", "a">>)}
AggRows == {<<a, b>> : a \in AggCellsA, b \in AggCellsB}
ColSkill == Str(<<"S", "k", "i", "l", "l">>)

(* Seven groups, the fourth named constructor, with sums 1 1 1 - 2 3 2. *)
GroupsSheet ==
  <<<<ColA, ColB>>,
    <<Str(<<"a">>), Str(<<"1">>)>>, <<Str(<<"b">>), Str(<<"1">>)>>,
    <<Str(<<"d">>), Str(<<"1">>)>>, <<Str(<<"c", "o", "n", "s", "t", "r", "u", "c", "t", "o", "r">>), Str(<<"1">>)>>,
    <<Str(<<"e">>), Str(<<"2">>)>>, <<Str(<<"f">>), Str(<<"3">>)>>,
    <<Str(<<"g">>), Str(<<"2">>)>>>>

(* The same labels in a column of their own, counted 1 1 1 - 2 3 2. *)
LabelsSheet ==
  <<<<ColA>>,
    <<Str(<<"a">>)>>, <<Str(<<"b">>)>>, <<Str(<<"d">>)>>, <<Str(<<"c", "o", "n", "s", "t", "r", "u", "c", "t", "o", "r">>)>>,
    <<Str(<<"e">>)>>, <<Str(<<"f">>)>>, <<Str(<<"g">>)>>,
    <<Str(<<"e">>)>>, <<Str(<<"f">>)>>, <<Str(<<"f">>)>>, <<Str(<<"g">>)>>>>

(* More labels than a chart shows: twelve in column A, nine in column
   Skill, a number in column B. *)
LongSheet(maxRows) ==
  <<<<ColA, ColSkill, ColB>>>> \o
    [i \in 1..maxRows |->
       <<Str(<<"k">> \o NatToString(i % 12)), Str(<<"s">> \o NatToString(i % 9)),
         Str(NatToString(i % 4))>>]

AggSheets(maxRows, maxLongRows) ==
  {<<<<ColA, ColB>>>> \o rows : rows \in SeqsUpTo(AggRows, maxRows)}
    \cup {GroupsSheet, LabelsSheet, LongSheet(maxLongRows)}
ChartNames ==
  {"getCategoryChart", "getCompetencyChart", "getPrimarySkillChart", "getComparisonChart"}
AggregateCalls(maxRows, maxLongRows) ==
  {[fn |-> f, data |-> NormalizeUploadSheet(sh)] :
     f \in ChartNames,
     sh \in {x \in AggSheets(maxRows, maxLongRows) : Len(NormalizeUploadSheet(x)) > 0}}

InitAggregate ==
  /\ pc = "ready" /\ call \in AggregateCalls(MaxAggRows, MaxLongRows) /\ ret = <<>>
  /\ AppIdle /\ UploadIdle /\ TableIdle

RunAggregate ==
  /\ pc = "ready" /\ call.fn \in ChartNames
  /\ ret' = CASE call.fn = "getCategoryChart" ->
                   getCategoryChart(processDashboardData(call.data))
              [] call.fn = "getCompetencyChart" ->
                   getCompetencyChart(processDashboardData(call.data))
              [] call.fn = "getPrimarySkillChart" ->
                   getPrimarySkillChart(processDashboardData(call.data))
              [] OTHER -> getComparisonChart(processDashboardData(call.data))
  /\ pc' = "done"
  /\ UNCHANGED <<call, appVars, uploadVars, tableVars, dashVars>>

NextAggregate == RunAggregate
SpecAggregate == InitAggregate /\ [][NextAggregate]_vars

Aggregated == pc = "done" /\ call.fn \in ChartNames /\ ret.made
FrequencyCharts == ChartNames \ {"getComparisonChart"}
TopNOf(fn) == IF fn = "getCompetencyChart" THEN 8 ELSE 10

(* The trimmed text of a record's value at a column, empty when it has
   none. *)
LabelAt(row, col) ==
  IF HasKey(row, col) /\ row[KeyPos(row, col)].v.t \notin {"undefined", "null"}
  THEN Trim(toString(row[KeyPos(row, col)].v))
  ELSE <<>>
RecordsLabelled(data, col, label) == {i \in 1..Len(data) : LabelAt(data[i], col) = label}
FirstLabelled(data, col, label) ==
  CHOOSE i \in RecordsLabelled(data, col, label) :
    \A j \in RecordsLabelled(data, col, label) : i <= j

(* C14: frequency returns at most topN entries, sorted by count descending,
   each count the number of records whose trimmed value is the label; blank
   values are not counted, so the counts sum to at most the number of
   non-blank values. *)
C14_FrequencyCountsLabels ==
  (Aggregated /\ call.fn \in FrequencyCharts) =>
    /\ Len(ret.entries) <= TopNOf(call.fn)
    /\ \A i \in 1..Len(ret.entries) :
         /\ Len(ret.entries[i].k) > 0
         /\ ret.entries[i].v =
              Num(Cardinality(RecordsLabelled(call.data, ret.column, ret.entries[i].k)))
    /\ \A i, j \in 1..Len(ret.entries) :
         i < j => ToNumber(ret.entries[i].v).n >= ToNumber(ret.entries[j].v).n
    /\ Cardinality(UNION {RecordsLabelled(call.data, ret.column, ret.entries[i].k) :
                            i \in 1..Len(ret.entries)})
         <= Cardinality({i \in 1..Len(call.data) : Len(LabelAt(call.data[i], ret.column)) > 0})

(* C15: in every chart, labels with equal values are in the order in which
   they were first met in the records. *)
C15_TiesInFirstSeenOrder ==
  Aggregated =>
    \A i, j \in 1..Len(ret.entries) :
      (i < j /\ ret.entries[i].v = ret.entries[j].v) =>
        FirstLabelled(call.data, ret.column, ret.entries[i].k)
          < FirstLabelled(call.data, ret.column, ret.entries[j].k)

(* The sum the claim gives a group: over its records, the numeric column's
   value when it parses as a finite number, else 0. *)
RECURSIVE ClaimedSum(_, _, _, _)
ClaimedSum(data, col, numericCol, label) ==
  IF Len(data) = 0 THEN 0
  ELSE (IF LabelAt(data[Len(data)], col) = label
           /\ HasKey(data[Len(data)], numericCol)
           /\ ParsesAsFiniteDecimal(ObjGet(data[Len(data)], numericCol))
        THEN ToNumber(ObjGet(data[Len(data)], numericCol)).n ELSE 0)
       + ClaimedSum(SubSeq(data, 1, Len(data) - 1), col, numericCol, label)

(* C16: groupedSum returns the top groups by sum descending, each with the
   sum of the numeric column over the records of its trimmed key, an
   unparseable value counting 0 and records with an empty key skipped. *)
C16_GroupedSumAddsParsedValues ==
  (Aggregated /\ call.fn = "getComparisonChart") =>
    LET numericCol == processDashboardData(call.data).numericColumns[1]
        keys == {LabelAt(call.data[i], ret.column) : i \in 1..Len(call.data)} \ {<<>>}
        shown == {ret.entries[i].k : i \in 1..Len(ret.entries)}
    IN /\ Len(ret.entries) <= 10
       /\ shown \subseteq keys
       /\ Cardinality(shown) = Len(ret.entries)
       /\ Cardinality(keys) <= 10 => shown = keys
       /\ \A i \in 1..Len(ret.entries) :
            ret.entries[i].v =
              Num(ClaimedSum(call.data, ret.column, numericCol, ret.entries[i].k))
       /\ \A i, j \in 1..Len(ret.entries) :
            i < j => ToNumber(ret.entries[i].v).n >= ToNumber(ret.entries[j].v).n
       /\ \A k \in keys \ shown : \A i \in 1..Len(ret.entries) :
            ClaimedSum(call.data, ret.column, numericCol, k)
              <= ToNumber(ret.entries[i].v).n

----------------------------------------------------------------------------
(* The normalizers' records against the raw rows (SpecNormalize). *)

(* The data rows of the call's sheet whose records the normalizer keeps. *)
SurvivingRows ==
  IF call.fn = "processExcelFile" THEN SelectSeq(Tail(call.sheet), RowHasContent)
  ELSE SelectSeq(Tail(call.sheet),
                 LAMBDA row : RecordHasContent(BuildRecord(call.sheet[1], row)))

(* The text of a header label, a blank one the empty text. *)
LabelText(header) == IF header = Undefined THEN <<>> ELSE toString(header)

(* The cell of a row under the last header that bears a label, as decoded;
   the empty string where the row has no cell. *)
ExactValue(headers, row, label) ==
  LET at == CHOOSE j \in 1..Len(headers) :
              /\ LabelText(headers[j]) = label
              /\ \A i \in 1..Len(headers) : LabelText(headers[i]) = label => i <= j
  IN IF at <= Len(row) /\ row[at] # Undefined THEN row[at] ELSE EmptyString

(* C18: normalize coerces no value: each value of a surviving record is the
   decoded cell at its position, whatever the cell (0 and false included);
   only a position the row does not have becomes the empty string. *)
C18_NormalizeKeepsValuesAsDecoded ==
  (pc = "done" /\ call.fn \in {"processExcelFile", "loadSampleData"}) =>
    /\ Len(ret) = Len(SurvivingRows)
    /\ \A k \in 1..Len(ret) : \A i \in 1..Len(ret[k]) :
         ret[k][i].v = ExactValue(call.sheet[1], SurvivingRows[k], ret[k][i].k)

(* C19: every record has a value for every column of the header row, so
   all records of a sheet have the same column names, and a row shorter
   than the header has the empty string at the positions it lacks. *)
C19_RecordHasEveryHeaderColumn ==
  (pc = "done" /\ call.fn \in {"processExcelFile", "loadSampleData"}) =>
    \A k \in 1..Len(ret) :
      /\ {ret[k][i].k : i \in 1..Len(ret[k])}
           = {LabelText(call.sheet[1][j]) : j \in 1..Len(call.sheet[1])}
      /\ \A j \in 1..Len(call.sheet[1]) :
           (j > Len(SurvivingRows[k])
              /\ \A i \in 1..Len(call.sheet[1]) :
                   LabelText(call.sheet[1][i]) = LabelText(call.sheet[1][j]) => i <= j)
             => ObjGet(ret[k], LabelText(call.sheet[1][j])) = EmptyString

(* The column list the table and the dashboard take from a sheet's
   records: Object.keys of the first, none without records. *)
columnsOf(data) == IF Len(data) = 0 THEN <<>> ELSE ObjectKeys(data[1])

(* C20: the column list of a sheet is its header row, label by label in
   header order, duplicate and blank labels included, also when no data
   row survives. *)
C20_ColumnsAreHeaderRow ==
  (pc = "done" /\ call.fn \in {"processExcelFile", "loadSampleData"}) =>
    columnsOf(ret) = [j \in 1..Len(call.sheet[1]) |-> LabelText(call.sheet[1][j])]

----------------------------------------------------------------------------
(* The sample fetch and the file reads against the upload (Spec). *)

(* C24: once a user's workbook is installed, a sample load started before
   the upload never replaces it: from then on isSampleData stays false and
   the step of the sample load leaves uploadedData as it is. *)
C24_SampleNeverReplacesUpload ==
  [][(~uploadedData.null /\ ~isSampleData) =>
       /\ ~isSampleData'
       /\ lastEvent'.op = "initializeData" => uploadedData' = uploadedData]_vars

(* C27: in the upload view isProcessing is true exactly while a read that
   processExcelFile started has delivered neither onload nor onerror. *)
C27_ProcessingIffReadInFlight ==
  activeTab = "upload" => (isProcessing <=> Len(reads) > 0)

----------------------------------------------------------------------------
(* The comparator as an ordering (SpecSort). *)

(* The arrangements of a sequence. *)
Arrangements(seq) ==
  {[k \in 1..Len(seq) |-> seq[p[k]]] :
     p \in {q \in [1..Len(seq) -> 1..Len(seq)] :
              \A k, l \in 1..Len(seq) : k # l => q[k] # q[l]}}

(* C29: for the sort column and direction the comparator is a consistent
   ordering of the records, antisymmetric and transitive, so the sorted
   records are the same for every arrangement of the input, up to the order
   of records that compare equal. *)
C29_ComparatorIsConsistentOrder ==
  Sorted =>
    /\ \A i, j \in 1..Len(call.data) :
         Sign(compare(call.data[i], call.data[j], call.cfg)) =
           0 - Sign(compare(call.data[j], call.data[i], call.cfg))
    /\ \A i, j, k \in 1..Len(call.data) :
         (compare(call.data[i], call.data[j], call.cfg) <= 0
            /\ compare(call.data[j], call.data[k], call.cfg) <= 0)
           => compare(call.data[i], call.data[k], call.cfg) <= 0
    /\ \A arranged \in Arrangements(call.data) :
         \A k \in 1..Len(ret) :
           compare(sortedData(arranged, call.cfg)[k], ret[k], call.cfg) = 0

----------------------------------------------------------------------------
(* The page and the column selection of the data table (SpecTable). *)

(* C25: whatever the user did, the current page is between 1 and
   max(1, total pages), so the page shown has records whenever the filtered
   records are not empty. *)
C25_PageWithinTotalPages ==
  /\ currentPage >= 1
  /\ currentPage <= (IF totalPages(tableSorted, rowsPerPage) > 1
                     THEN totalPages(tableSorted, rowsPerPage) ELSE 1)
  /\ Len(filteredData(currentData, searchTerm)) > 0 => Len(tablePage) > 0

(* The step clears the column selection: Clear All, or the last selected
   column unticked. *)
ClearStep ==
  \/ lastEvent'.op = "clearAll"
  \/ lastEvent'.op = "handleColumnToggle" /\ rendered.columns = <<lastEvent'.column>>

(* C26: on a sheet that has columns, clearing the column selection leaves
   no column selected, and none is selected until the user selects one. *)
C26_ClearedSelectionStaysEmpty ==
  [][Len(availableColumns) > 0 =>
       /\ ClearStep => rendered'.columns = <<>>
       /\ (rendered.columns = <<>>
             /\ lastEvent.op \in {"clearAll", "handleColumnToggle"}
             /\ lastEvent'.op = "render")
            => rendered'.columns = <<>>]_vars

----------------------------------------------------------------------------
(* The dashboard and the views' sheet selection (Spec). *)

(* C21: while auto-refresh is enabled, the render a timer tick brings
   about has the data effect among its effects, which runs
   processDashboardData again for the selected sheet. *)
C21_TickReprocessesDashboard ==
  [][(lastEvent.op = "tick" /\ lastEvent'.op = "render" /\ autoRefresh) =>
       "data" \in rendered'.due]_vars

(* The records of the dashboard's selected sheet in the current workbook. *)
DashboardRecords ==
  IF uploadedData.null \/ ~InSeq(dashboardSheet, sheetsOf(uploadedData)) THEN <<>>
  ELSE ObjGet(uploadedData.obj, dashboardSheet)

(* C22: once the effects have run, the dashboard's derived data are the
   classification of the records of the selected sheet of the current
   workbook (none without such records), never those of an earlier
   workbook or sheet. *)
C22_DashboardDataIsOfCurrentSheet ==
  (activeTab = "dashboard" /\ ~renderPending) =>
    IF Len(DashboardRecords) = 0 THEN dashboardData.null
    ELSE /\ ~dashboardData.null
         /\ dashboardData.value.data = DashboardRecords
         /\ dashboardData.value.columns = ObjectKeys(DashboardRecords[1])
         /\ dashboardData.value.totalRecords = Len(DashboardRecords)
         /\ dashboardData.value = processDashboardData(DashboardRecords)

(* The mounted dashboard was rendered with a workbook a read delivered,
   its selected sheet had records in the workbook before, and the effect
   has replaced the data of that sheet. *)
C22_Witness ==
  /\ activeTab = "dashboard" /\ ~renderPending
  /\ lastEvent.op = "effects" /\ lastEvent.processed
  /\ dashboardSheet = NameS1 /\ sheets = <<NameT>>
  /\ dashboardData.null

(* C23: in the dashboard and in the data table the selected sheet is unset
   or a sheet of the current workbook. *)
C23_SelectedSheetIsOfWorkbook ==
  /\ selectedSheet = <<>> \/ InSeq(selectedSheet, sheetsOf(uploadedData))
  /\ dashboardSheet = <<>> \/ InSeq(dashboardSheet, sheetsOf(uploadedData))

(* C30: at most one interval is scheduled, and one is if and only if
   auto-refresh is enabled in the mounted dashboard; a tick increments
   refreshKey only then. *)
C30_OneIntervalIffAutoRefresh ==
  /\ [](/\ intervals <= 1
        /\ intervals = 1 <=> (autoRefresh /\ activeTab = "dashboard"))
  /\ [][(lastEvent'.op = "tick" /\ refreshKey' # refreshKey) =>
          (autoRefresh /\ activeTab = "dashboard" /\ intervals = 1)]_vars

(* Auto-refresh was switched off after a tick, and no interval is left. *)
C30_Witness ==
  /\ lastEvent.op = "setAutoRefresh" /\ ~autoRefresh /\ activeTab = "dashboard"
  /\ refreshKey > 0 /\ intervals = 0

----------------------------------------------------------------------------
(* SpecLive: Spec with a file reader that delivers onload or onerror for
   every read it was given. *)
SpecLive ==
  /\ Spec
  /\ \A i \in 1..MaxReads : WF_vars((\E content \in Contents : ReaderOnLoad(i, content)) \/ ReaderOnError(i))

(* The read of the file has ended with exactly one of its two outcomes
   in place: its workbook handed to onDataUpload, or an error message. *)
UploadFinished(file) ==
  /\ lastEvent.op \in {"reader.onload", "reader.onerror"} /\ lastEvent.file = file
  /\ ~isProcessing
  /\ (lastEvent.op = "reader.onload" /\ ~DecodeThrows(lastEvent.content)) # (error # "null")

(* C28: every started upload finishes: each call of processExcelFile leads
   to a state where isProcessing is false and either the file's workbook
   was handed to onDataUpload or an error message is set, not both and not
   neither. *)
C28_UploadEventuallyFinishes ==
  \A file \in {f \in Files : f.valid} :
    (lastEvent = [op |-> "handleFileSelect", file |-> file]) ~> UploadFinished(file)

====
